---------------------------- MODULE Spec2Model ----------------------------
(***************************************************************************)
(* A model of the router configuration manager: the VLSM subnet allocator  *)
(* (controller/main_controller.py, model/subnetting.py), the command       *)
(* compiler and verification engine (model/device.py, model/router.py),    *)
(* the domain model's update (model/security.py, ...) and the per-device   *)
(* configuration cycle (controller/device_controller.py).                  *)
(***************************************************************************)
EXTENDS Integers, Sequences, FiniteSets, TLC

(***************************************************************************)
(* Bounds of the model.                                                    *)
(***************************************************************************)
\* Longest list of per-subnet device counts handed to the allocator.
MaxDemands == 3

\* The number of intents a device controller applies in a run.
MaxCycles == 2

(***************************************************************************)
(* Generic helpers.                                                        *)
(***************************************************************************)
RECURSIVE Pow2(_)
Pow2(n) == IF n <= 0 THEN 1 ELSE 2 * Pow2(n - 1)

SeqsUpTo(S, n) == UNION {[1..k -> S] : k \in 0..n}

(***************************************************************************)
(* The subnet allocator.  An IPv4Network is [addr, prefix]: its network    *)
(* address as an integer and its prefix length.                            *)
(***************************************************************************)
\* 10.0.0.0 as an integer.
TenNet == 167772160

BaseNetworks ==
    { [addr |-> TenNet, prefix |-> 24],
      [addr |-> TenNet, prefix |-> 28],
      [addr |-> TenNet, prefix |-> 30] }

DemandValues == {2, 10, 13, 50, 100}

NumAddresses(net) == Pow2(32 - net.prefix)

\* networks = [(i, devices) for i, devices in enumerate(devices_per_network)]
Enumerate(devices) == [i \in 1..Len(devices) |-> [idx |-> i - 1, devices |-> devices[i]]]

\* The inner while loop of the insertion sort: key is moved left past every
\* element whose device count is smaller than its own.
RECURSIVE InsertKey(_, _)
InsertKey(sorted, key) ==
    IF sorted # <<>> /\ sorted[Len(sorted)].devices < key.devices
    THEN Append(InsertKey(SubSeq(sorted, 1, Len(sorted) - 1), key), sorted[Len(sorted)])
    ELSE Append(sorted, key)

\* for j in range(1, len(networks)): insert networks[j] into networks[0..j-1]
RECURSIVE InsertionSortFrom(_, _)
InsertionSortFrom(networks, j) ==
    IF j > Len(networks) THEN networks
    ELSE InsertionSortFrom(
            InsertKey(SubSeq(networks, 1, j - 1), networks[j])
                \o SubSeq(networks, j + 1, Len(networks)),
            j + 1)

InsertionSort(networks) == InsertionSortFrom(networks, 2)

\* prefix = 32; while (2 ** (32 - prefix)) < needed_hosts: prefix -= 1
RECURSIVE PrefixLoop(_, _)
PrefixLoop(prefix, needed_hosts) ==
    IF Pow2(32 - prefix) < needed_hosts THEN PrefixLoop(prefix - 1, needed_hosts)
    ELSE prefix

\* needed_hosts = devices + 2, then the prefix loop.
NeededPrefix(devices) == PrefixLoop(32, devices + 2)

\* IPv4Network.subnets(new_prefix=...) raises ValueError when the new prefix
\* is shorter than the network's own (or longer than 32).
SubnetsRaises(pool, new_prefix) == new_prefix < pool.prefix \/ new_prefix > 32

\* list(pool.subnets(new_prefix=prefix)): the equal sub-blocks, in address order.
SubnetsOf(pool, new_prefix) ==
    [k \in 1..Pow2(new_prefix - pool.prefix) |->
        [addr |-> pool.addr + (k - 1) * Pow2(32 - new_prefix), prefix |-> new_prefix]]

\* The for loop over enumerate(current_subnet_pool): the first position whose
\* block does not raise, 0 when every block raises (the for-else branch).
FirstFit(pool, prefix) ==
    IF \E i \in 1..Len(pool) : ~SubnetsRaises(pool[i], prefix)
    THEN CHOOSE i \in 1..Len(pool) :
            /\ ~SubnetsRaises(pool[i], prefix)
            /\ \A j \in 1..(i - 1) : SubnetsRaises(pool[j], prefix)
    ELSE 0

RemoveAt(s, i) == SubSeq(s, 1, i - 1) \o SubSeq(s, i + 1, Len(s))

PoolAfterKeepUsed(pool, i, new_subnets) == pool \o Tail(new_subnets)

PoolAfterDropsRest(pool, i, new_subnets) == RemoveAt(pool, i)

\* del current_subnet_pool[i]; current_subnet_pool.extend(new_subnets[1:])
PoolAfter(pool, i, new_subnets) == RemoveAt(pool, i) \o Tail(new_subnets)

UnsortedResult(allocated) == [k \in 1..Len(allocated) |-> allocated[k].subnet]

\* result = [subnet for _, subnet in sorted(subnets)]: the pairs sorted by
\* their (unique) original index.
SortedResult(allocated) ==
    [k \in 1..Len(allocated) |->
        (CHOOSE p \in {allocated[m] : m \in 1..Len(allocated)} :
            Cardinality({q \in {allocated[m] : m \in 1..Len(allocated)} : q.idx < p.idx})
                = k - 1).subnet]

NoResult == <<>>

PartialOnRaise(allocated) ==
    [pc |-> "raised", returned |-> TRUE, result |-> UnsortedResult(allocated)]

\* raise ValueError(...): nothing is returned; MainController.run catches it
\* and only prints the error.
RaiseOutcome(allocated) == [pc |-> "raised", returned |-> FALSE, result |-> NoResult]

(***************************************************************************)
(* IPv4 values.  An address is its four octets; a network literal is an    *)
(* address and a prefix length.  Formatting and parsing are what the       *)
(* ipaddress library does with them.                                       *)
(***************************************************************************)
\* IPv4Address.exploded / str(): the dotted-quad text.
Dotted(ip) ==
    ToString(ip[1]) \o "." \o ToString(ip[2]) \o "." \o ToString(ip[3]) \o "." \o ToString(ip[4])

\* The number of network bits that fall in octet k of a /len prefix.
OctetBits(len, k) ==
    IF len - 8 * (k - 1) >= 8 THEN 8
    ELSE IF len - 8 * (k - 1) <= 0 THEN 0 ELSE len - 8 * (k - 1)

\* IPv4Network.netmask
Netmask(len) == [k \in 1..4 |-> 256 - Pow2(8 - OctetBits(len, k))]

\* IPv4Network.hostmask
Hostmask(len) == [k \in 1..4 |-> Pow2(8 - OctetBits(len, k)) - 1]

NetworkAddressKeepsHostBits(net) == net.addr

\* IPv4Network(..., strict=False).network_address: the host bits are cleared.
NetworkAddress(net) ==
    [k \in 1..4 |-> net.addr[k] - (net.addr[k] % Pow2(8 - OctetBits(net.len, k)))]

HasHostBits(net) == NetworkAddress(net) # net.addr

\* IPv4Network(text, strict=False) raises ValueError unless text is A.B.C.D or
\* A.B.C.D/n (or A.B.C.D/mask): "A.B.C.D MASK" and other text do not parse.
ParseNetworkRaises(net) == net.form # "cidr"

\* IPv4Network(text): the strict parse also raises when host bits are set.
ParseNetworkStrictRaises(net) == ParseNetworkRaises(net) \/ HasHostBits(net)

(***************************************************************************)
(* Change intents: sparse maps from key to value.                          *)
(***************************************************************************)
EmptyIntent == [k \in {} |-> TRUE]

Has(I, k) == k \in DOMAIN I

\* configuration.get(k) is True / is False
IsTrue(I, k) == Has(I, k) /\ I[k] = TRUE
IsFalse(I, k) == Has(I, k) /\ I[k] = FALSE

HasAll(I, keys) == keys \subseteq DOMAIN I

Opt(k, Vals) == {EmptyIntent} \cup {k :> v : v \in Vals}

Combine(A, B) == {a @@ b : a \in A, b \in B}

DeviceNames == {"R1", "R2"}
UserNames == {"bob", "eve"}
Secrets == {"s3cret"}
IfaceNames == {"g0/1", "g0/2"}
SubifaceNums == {"10"}
Hosts == {<<10, 0, 0, 1>>, <<10, 0, 0, 2>>}

\* The pieces of a banner text; "^" is the delimiter character.
BannerTexts == {<<"hello">>, <<"he", "^", "llo">>}

IdentityIntents ==
    Combine(Opt("device_name", DeviceNames), Opt("ip_domain_lookup", BOOLEAN))

UserIntents ==
    Combine({("username" :> u) @@ ("password" :> p) : u \in UserNames, p \in Secrets},
            Opt("privilege", {15}))
    \cup {"username_delete" :> u : u \in UserNames}

BannerIntents == {"banner_motd" :> b : b \in BannerTexts}

SecurityIntents ==
    {"password_encryption" :> b : b \in BOOLEAN}
    \cup {"console_access" :> "local_database"}
    \cup {("console_access" :> "password") @@ ("console_password" :> p) : p \in Secrets}
    \cup {"vty_protocols" :> v : v \in {<<"ssh">>, <<"ssh", "telnet">>, <<"telnet">>}}
    \cup {"enable_passwd" :> p : p \in Secrets}

Descriptions == {"uplink"}
Masks == {<<255, 255, 255, 0>>}

InterfaceIntents ==
    Combine({"iface" :> n : n \in IfaceNames},
      Combine(Opt("subiface_num", SubifaceNums),
        Combine(Opt("description", Descriptions),
          Combine({EmptyIntent} \cup {("ip_address" :> a) @@ ("mask" :> m) :
                                        a \in {<<10, 0, 0, 1>>}, m \in Masks},
                  Opt("is_up", BOOLEAN)))))

HsrpIntents ==
    {("iface" :> n) @@ ("hsrp_group" :> 1) @@ ("hsrp_virtual_ip" :> <<10, 0, 0, 254>>)
        @@ ("hsrp_priority" :> 100) @@ ("preempt" :> b) : n \in IfaceNames, b \in BOOLEAN}

PoolNetworks ==
    { [form |-> "cidr", addr |-> <<10, 1, 1, 0>>, len |-> 24],
      [form |-> "cidr", addr |-> <<10, 1, 1, 5>>, len |-> 24] }

DhcpIntents ==
    {("iface" :> n) @@ ("helper_address" :> <<10, 0, 0, 2>>) : n \in IfaceNames}
    \cup {("first_excluded_addr" :> a) @@ ("last_excluded_addr" :> b) : a \in Hosts, b \in Hosts}
    \cup {"first_excluded_addr" :> <<10, 0, 0, 2>>, "pool_name" :> "CORP"}
    \cup Combine({("pool_name" :> "CORP") @@ ("pool_network" :> n)
                     @@ ("pool_gateway_ip" :> <<10, 1, 1, 1>>) : n \in PoolNetworks},
                 Opt("pool_dns_ip", {<<8, 8, 8, 8>>}))

\* dest_ip texts: "192.168.2.0/24", "192.168.2.5/24", "192.168.2.0 255.255.255.0"
\* and text that is no network at all.
Destinations ==
    { [form |-> "cidr", addr |-> <<192, 168, 2, 0>>, len |-> 24],
      [form |-> "cidr", addr |-> <<192, 168, 2, 5>>, len |-> 24],
      [form |-> "mask", addr |-> <<192, 168, 2, 0>>, len |-> 24],
      [form |-> "bad", addr |-> <<0, 0, 0, 0>>, len |-> 0] }

StaticIntents ==
    Combine({("dest_ip" :> d) @@ ("next_hop" :> <<10, 0, 0, 2>>) : d \in Destinations},
            Opt("admin_distance", {1, 5}))

OspfNetworks ==
    { [form |-> "cidr", addr |-> <<10, 0, 0, 0>>, len |-> 24],
      [form |-> "cidr", addr |-> <<10, 0, 0, 1>>, len |-> 24] }

ProcessIds == {1, 2}

OspfProcessIntents ==
    Combine({"process_id" :> pid : pid \in ProcessIds},
      Combine(Opt("router_id", {<<1, 1, 1, 1>>}),
        Combine(Opt("reference-bandwidth", {1000}),
          Combine({EmptyIntent} \cup {("network_ip" :> n) @@ ("network_area" :> 0) :
                                        n \in OspfNetworks},
                  Opt("is_redistribute", BOOLEAN)))))

\* The per-interface OSPF values an intent carries under the interface's name.
OspfIfaceParams ==
    { [hello_interval |-> 10], [dead_interval |-> 40], [priority |-> 1], [cost |-> 10],
      [is_pint_to_point |-> TRUE], [is_passive |-> TRUE], [is_passive |-> FALSE],
      [hello_interval |-> 10, is_passive |-> TRUE] }

OspfIfaceIntents ==
    {("process_id" :> 1) @@ ("iface_list" :> <<[name |-> "g0/1"]>>) @@ ("g0/1" :> p) :
        p \in OspfIfaceParams}
    \cup {("process_id" :> 1) @@ ("iface_list" :> <<[name |-> "g0/1"], [name |-> "g0/2"]>>)
             @@ ("g0/1" :> p) @@ ("g0/2" :> q) : p \in OspfIfaceParams, q \in OspfIfaceParams}

OtherIntents == {EmptyIntent, "save_config" :> TRUE}

\* The feature groups of the compiler, one set of intents per group.
FeatureGroups ==
    [ identity |-> IdentityIntents, users |-> UserIntents, banner |-> BannerIntents,
      security |-> SecurityIntents, interface |-> InterfaceIntents, hsrp |-> HsrpIntents,
      dhcp |-> DhcpIntents, static |-> StaticIntents, ospf |-> OspfProcessIntents,
      ospf_ifaces |-> OspfIfaceIntents, other |-> OtherIntents ]

Intents == UNION {FeatureGroups[g] : g \in DOMAIN FeatureGroups}

\* One intent per feature group, with the same interface and the same OSPF
\* process wherever a group names one.
MixedParts ==
    << ("device_name" :> "R1") @@ ("ip_domain_lookup" :> FALSE),
       ("username" :> "bob") @@ ("password" :> "s3cret") @@ ("privilege" :> 15)
          @@ ("username_delete" :> "eve"),
       "banner_motd" :> <<"hello">>,
       ("password_encryption" :> TRUE) @@ ("console_access" :> "local_database")
          @@ ("vty_protocols" :> <<"ssh">>) @@ ("enable_passwd" :> "s3cret"),
       ("iface" :> "g0/1") @@ ("description" :> "uplink") @@ ("ip_address" :> <<10, 0, 0, 1>>)
          @@ ("mask" :> <<255, 255, 255, 0>>) @@ ("is_up" :> TRUE),
       ("iface" :> "g0/1") @@ ("hsrp_group" :> 1) @@ ("hsrp_virtual_ip" :> <<10, 0, 0, 254>>)
          @@ ("hsrp_priority" :> 100) @@ ("preempt" :> TRUE),
       ("iface" :> "g0/1") @@ ("helper_address" :> <<10, 0, 0, 2>>)
          @@ ("first_excluded_addr" :> <<10, 0, 0, 1>>)
          @@ ("last_excluded_addr" :> <<10, 0, 0, 2>>)
          @@ ("pool_name" :> "CORP")
          @@ ("pool_network" :> [form |-> "cidr", addr |-> <<10, 1, 1, 0>>, len |-> 24])
          @@ ("pool_gateway_ip" :> <<10, 1, 1, 1>>),
       ("dest_ip" :> [form |-> "cidr", addr |-> <<192, 168, 2, 0>>, len |-> 24])
          @@ ("next_hop" :> <<10, 0, 0, 2>>),
       ("process_id" :> 1) @@ ("router_id" :> <<1, 1, 1, 1>>)
          @@ ("network_ip" :> [form |-> "cidr", addr |-> <<10, 0, 0, 0>>, len |-> 24])
          @@ ("network_area" :> 0) @@ ("is_redistribute" :> TRUE),
       ("process_id" :> 1) @@ ("iface_list" :> <<[name |-> "g0/1"]>>)
          @@ ("g0/1" :> [hello_interval |-> 10, is_passive |-> TRUE]) >>

RECURSIVE MergeParts(_, _)
MergeParts(S, k) ==
    IF k > Len(MixedParts) THEN EmptyIntent
    ELSE (IF k \in S THEN MixedParts[k] ELSE EmptyIntent) @@ MergeParts(S, k + 1)

\* Intents that carry the keys of several feature groups at once: every pair
\* of groups, all groups but one, and all groups.
MixedIntents ==
    {MergeParts(S, 1) : S \in {T \in SUBSET (1..Len(MixedParts)) :
                                  Cardinality(T) = 2 \/ Cardinality(T) >= Len(MixedParts) - 1}}

(***************************************************************************)
(* The command compiler: Device.config and Router.config.  A command line  *)
(* is the sequence of its whitespace-separated words.                      *)
(***************************************************************************)
RECURSIVE Flatten(_)
Flatten(ss) == IF ss = <<>> THEN <<>> ELSE Head(ss) \o Flatten(Tail(ss))

When(cond, lines) == IF cond THEN lines ELSE <<>>

\* banner_motd.replace("^", ""): the text without its delimiter characters.
RECURSIVE StripCarets(_)
StripCarets(b) ==
    IF b = <<>> THEN ""
    ELSE (IF Head(b) = "^" THEN "" ELSE Head(b)) \o StripCarets(Tail(b))

\* Device.config raises KeyError when a key it indexes is missing.
DeviceConfigKeyError(I) ==
    \/ Has(I, "username") /\ ~Has(I, "password")
    \/ Has(I, "console_access") /\ I["console_access"] = "password"
          /\ ~Has(I, "console_password")

\* Lines 247-257 of device.py.
VtyLines(I) ==
    When(Has(I, "vty_protocols") /\ Len(I["vty_protocols"]) > 1,
         << <<"line", "vty", "0", "15">>, <<"transport", "input", "telnet", "ssh">> >>)
    \o When(Has(I, "vty_protocols") /\ Len(I["vty_protocols"]) = 1,
         << <<"line", "vty", "0", "15">>, <<"transport", "input", "ssh">> >>)

\* Lines 208-263 of device.py.
DeviceConfig(I) ==
       When(Has(I, "device_name"), << <<"hostname", I["device_name"]>> >>)
    \o When(IsTrue(I, "ip_domain_lookup"), << <<"ip", "domain-lookup">> >>)
    \o When(IsFalse(I, "ip_domain_lookup"), << <<"no", "ip", "domain-lookup">> >>)
    \o When(Has(I, "username") /\ Has(I, "password"),
            << <<"username", I["username"], "privilege",
                 ToString(IF Has(I, "privilege") THEN I["privilege"] ELSE 1),
                 "secret", I["password"]>> >>)
    \o When(Has(I, "username_delete"), << <<"no", "username", I["username_delete"]>> >>)
    \o When(Has(I, "banner_motd"),
            << <<"banner", "motd", "^" \o StripCarets(I["banner_motd"]) \o "^">> >>)
    \o When(IsTrue(I, "password_encryption"), << <<"service", "password-encryption">> >>)
    \o When(Has(I, "console_access") /\ I["console_access"] = "local_database",
            << <<"line", "console", "0">>, <<"login", "local">> >>)
    \o When(Has(I, "console_access") /\ I["console_access"] = "password"
                /\ Has(I, "console_password"),
            << <<"line", "console", "0">>, <<"password", I["console_password"]>>,
               <<"login">> >>)
    \o VtyLines(I)
    \o When(Has(I, "enable_passwd"), << <<"enable", "secret", I["enable_passwd"]>> >>)

\* f"{iface}.{sub}"
SubifaceName(I) == I["iface"] \o "." \o I["subiface_num"]

HsrpKeys == {"hsrp_virtual_ip", "hsrp_group", "hsrp_priority", "preempt"}

\* Lines 171-205 of router.py: the interface block and the HSRP block.
IfaceConfig(I) ==
    When(Has(I, "iface"),
           (IF Has(I, "subiface_num")
            THEN << <<"interface", SubifaceName(I)>>,
                    <<"encapsulation", "dot1Q", I["subiface_num"]>> >>
            ELSE << <<"interface", I["iface"]>> >>)
        \o When(Has(I, "description"), << <<"description", I["description"]>> >>)
        \o When(Has(I, "ip_address") /\ Has(I, "mask"),
                << <<"ip", "address", Dotted(I["ip_address"]), Dotted(I["mask"])>> >>)
        \o When(IsFalse(I, "is_up"), << <<"shutdown">> >>)
        \o When(IsTrue(I, "is_up"), << <<"no", "shutdown">> >>)
        \o When(HasAll(I, HsrpKeys),
                << <<"interface", I["iface"]>>,
                   <<"standby", ToString(I["hsrp_group"]), "ip", Dotted(I["hsrp_virtual_ip"])>>,
                   <<"standby", ToString(I["hsrp_group"]), "priority",
                     ToString(I["hsrp_priority"])>>,
                   IF I["preempt"]
                   THEN <<"standby", ToString(I["hsrp_group"]), "preempt">>
                   ELSE <<"no", "standby", ToString(I["hsrp_group"]), "preempt">> >>))

\* Lines 208-234 of router.py: helper address, excluded range, pool.
DhcpConfig(I) ==
       When(Has(I, "helper_address") /\ Has(I, "iface"),
            << <<"interface", I["iface"]>>,
               <<"ip", "helper-address", Dotted(I["helper_address"])>> >>)
    \o When(HasAll(I, {"first_excluded_addr", "last_excluded_addr"}),
            IF Dotted(I["first_excluded_addr"]) = Dotted(I["last_excluded_addr"])
            THEN << <<"ip", "dhcp", "excluded-address", Dotted(I["first_excluded_addr"])>> >>
            ELSE << <<"ip", "dhcp", "excluded-address", Dotted(I["first_excluded_addr"]),
                      Dotted(I["last_excluded_addr"])>> >>)
    \o When(HasAll(I, {"pool_name", "pool_network", "pool_gateway_ip"})
                /\ ~ParseNetworkRaises(I["pool_network"]),
            << <<"ip", "dhcp", "pool", I["pool_name"]>>,
               <<"network", Dotted(NetworkAddress(I["pool_network"])),
                 Dotted(Netmask(I["pool_network"].len))>>,
               <<"default-router", Dotted(I["pool_gateway_ip"])>> >>
            \o When(Has(I, "pool_dns_ip"), << <<"dns-server", Dotted(I["pool_dns_ip"])>> >>))

\* Lines 239-250 of router.py: the ip route line of an intent with dest_ip
\* and next_hop.
StaticRouteLine(I) ==
    <<"ip", "route", Dotted(NetworkAddress(I["dest_ip"])), Dotted(Netmask(I["dest_ip"].len)),
      Dotted(I["next_hop"])>>
    \o When(Has(I, "admin_distance"), <<ToString(I["admin_distance"])>>)

\* Lines 238-250 of router.py.
StaticConfig(I) ==
    When(HasAll(I, {"dest_ip", "next_hop"}) /\ ~ParseNetworkRaises(I["dest_ip"]),
         <<StaticRouteLine(I)>>)

OspfProcessKeys == {"router_id", "reference-bandwidth", "network_ip", "is_redistribute"}

\* Lines 254-273 of router.py: the statements under "router ospf <pid>".
OspfProcessConfig(I) ==
    When(Has(I, "process_id") /\ (OspfProcessKeys \cap DOMAIN I) # {},
           << <<"router", "ospf", ToString(I["process_id"])>> >>
        \o When(Has(I, "router_id"), << <<"router-id", Dotted(I["router_id"])>> >>)
        \o When(Has(I, "reference-bandwidth"),
                << <<"auto-cost", "reference-bandwidth", ToString(I["reference-bandwidth"])>> >>)
        \o When(HasAll(I, {"network_ip", "network_area"})
                    /\ ~ParseNetworkRaises(I["network_ip"]),
                << <<"network", Dotted(NetworkAddress(I["network_ip"])),
                     Dotted(Hostmask(I["network_ip"].len)), "area",
                     ToString(I["network_area"])>> >>)
        \o When(IsTrue(I, "is_redistribute"), << <<"redistribute", "static", "subnet">> >>)
        \o When(IsFalse(I, "is_redistribute"),
                << <<"no", "redistribute", "static", "subnet">> >>))

ParamHas(I, name, k) == Has(I, name) /\ k \in DOMAIN I[name]
ParamIsTrue(I, name, k) == ParamHas(I, name, k) /\ I[name][k] = TRUE

\* Lines 278-290 of router.py: one interface of iface_list.
OspfIfaceLines(I, name) ==
       << <<"interface", name>> >>
    \o When(ParamHas(I, name, "hello_interval"),
            << <<"ip", "ospf", "hello-interval", ToString(I[name]["hello_interval"])>> >>)
    \o When(ParamHas(I, name, "dead_interval"),
            << <<"ip", "ospf", "dead-interval", ToString(I[name]["dead_interval"])>> >>)
    \o When(ParamHas(I, name, "priority"),
            << <<"ip", "ospf", "priority", ToString(I[name]["priority"])>> >>)
    \o When(ParamHas(I, name, "cost"),
            << <<"ip", "ospf", "cost", ToString(I[name]["cost"])>> >>)
    \o When(ParamIsTrue(I, name, "is_pint_to_point"),
            << <<"ip", "ospf", "network", "point-to-point">> >>)

IfaceListNames(I) == [k \in 1..Len(I["iface_list"]) |-> I["iface_list"][k].name]

\* Lines 291-292: the interfaces whose is_passive value is True.
ConfigPassiveIfaces(I) ==
    SelectSeq(IfaceListNames(I), LAMBDA name : ParamIsTrue(I, name, "is_passive"))

\* Lines 275-298 of router.py.
OspfIfaceConfig(I) ==
    When(Has(I, "iface_list"),
           Flatten([k \in 1..Len(I["iface_list"]) |-> OspfIfaceLines(I, IfaceListNames(I)[k])])
        \o When(ConfigPassiveIfaces(I) # <<>> /\ Has(I, "process_id"),
                  << <<"router", "ospf", ToString(I["process_id"])>> >>
               \o [k \in 1..Len(ConfigPassiveIfaces(I)) |->
                     <<"passive-interface", ConfigPassiveIfaces(I)[k]>>]))

RouterConfigKeyError(I) ==
    \/ DeviceConfigKeyError(I)
    \/ Has(I, "iface") /\ Has(I, "ip_address") /\ ~Has(I, "mask")
    \/ Has(I, "iface_list")
          /\ \/ \E k \in 1..Len(I["iface_list"]) : ~Has(I, IfaceListNames(I)[k])
             \/ ConfigPassiveIfaces(I) # <<>> /\ ~Has(I, "process_id")

RouterConfigValueError(I) ==
    \/ HasAll(I, {"pool_name", "pool_network", "pool_gateway_ip"})
          /\ ParseNetworkRaises(I["pool_network"])
    \/ HasAll(I, {"dest_ip", "next_hop"}) /\ ParseNetworkRaises(I["dest_ip"])
    \/ Has(I, "process_id") /\ HasAll(I, {"network_ip", "network_area"})
          /\ ParseNetworkRaises(I["network_ip"])

\* Router.config: what it raises ("none" when it returns) and the command
\* list it returns.
RouterConfigRaised(I) ==
    IF RouterConfigKeyError(I) THEN "KeyError"
    ELSE IF RouterConfigValueError(I) THEN "ValueError" ELSE "none"

RouterConfigStaticBeforeDhcp(I) ==
    DeviceConfig(I) \o IfaceConfig(I) \o StaticConfig(I) \o DhcpConfig(I)
        \o OspfProcessConfig(I) \o OspfIfaceConfig(I)

RouterConfigAlwaysEnds(I) ==
    DeviceConfig(I) \o IfaceConfig(I) \o DhcpConfig(I) \o StaticConfig(I)
        \o OspfProcessConfig(I) \o OspfIfaceConfig(I) \o << <<"end">> >>

RouterConfig(I) ==
    DeviceConfig(I) \o IfaceConfig(I) \o DhcpConfig(I) \o StaticConfig(I)
        \o OspfProcessConfig(I) \o OspfIfaceConfig(I)

(***************************************************************************)
(* The parsed running-config (CiscoConfParse): a sequence of top-level     *)
(* lines, each with the lines indented under it.  The regular expressions  *)
(* of the verifier are evaluated on the words of a line.                   *)
(***************************************************************************)
Block(line, children) == [line |-> line, children |-> children]

\* "^a\s+b\b": the line begins with these words.
StartsWith(l, words) == Len(l) >= Len(words) /\ SubSeq(l, 1, Len(words)) = words

\* "<name>\b": the word is name, or name followed by a non-word character
\* (the "." of a subinterface) and more.
WordPrefix(name, word) == word = name \/ \E n \in SubifaceNums : word = name \o "." \o n

\* parse.find_lines(r"^..."): the top-level lines, in order.
TopLines(cfg) == [k \in 1..Len(cfg) |-> cfg[k].line]

AnyLine(cfg, P(_)) == \E k \in 1..Len(cfg) : P(cfg[k].line)

\* p.has_child_with(...)
HasChildWith(b, P(_)) == \E k \in 1..Len(b.children) : P(b.children[k])

\* parse.find_objects(...)
FindObjects(cfg, P(_)) == SelectSeq(cfg, LAMBDA b : P(b.line))

\* parse.find_objects(rf'^interface\s+{re.escape(iface_name)}\b')
IfaceObjs(cfg, name) ==
    FindObjects(cfg, LAMBDA l : Len(l) >= 2 /\ l[1] = "interface" /\ WordPrefix(name, l[2]))

\* parse.find_objects(rf'^router\s+ospf\s+{pid}\b')
OspfObjs(cfg, pid) == FindObjects(cfg, LAMBDA l : StartsWith(l, <<"router", "ospf", ToString(pid)>>))

\* parse.find_objects(rf'^ip\s+dhcp\s+pool\s+{re.escape(pool)}\s*$')
PoolObjs(cfg, pool) == FindObjects(cfg, LAMBDA l : l = <<"ip", "dhcp", "pool", pool>>)

(***************************************************************************)
(* The verification engine: Device.verify_config_applied and               *)
(* Router.verify_config_applied on a fetched, parsed running-config.       *)
(***************************************************************************)
EmptyResults == [k \in {} |-> TRUE]

WhenMap(cond, m) == IF cond THEN m ELSE EmptyResults

\* Assignments results[k] = v made in order: a later one overrides.
RECURSIVE Assign(_)
Assign(ms) == IF ms = <<>> THEN EmptyResults ELSE ms[Len(ms)] @@ Assign(SubSeq(ms, 1, Len(ms) - 1))

\* expected_banner in banner_line, banner_line being the first "banner motd"
\* line or "".
BannerObserved(cfg, expected) ==
    \/ expected = ""
    \/ LET found == FindObjects(cfg, LAMBDA l : StartsWith(l, <<"banner", "motd">>))
       IN  /\ found # <<>>
           /\ \E k \in 1..Len(found[1].line) :
                 found[1].line[k] \in {expected, "^" \o expected \o "^"}

\* Lines 167-178 of device.py.
ConsoleObserved(cfg, access) ==
    LET con == FindObjects(cfg, LAMBDA l : Len(l) >= 2 /\ l[1] = "line"
                                            /\ l[2] \in {"con", "console"})
        LoginLocal(l) == StartsWith(l, <<"login", "local">>)
    IN  IF access = "local_database"
        THEN \E k \in 1..Len(con) : HasChildWith(con[k], LoginLocal)
        ELSE \E k \in 1..Len(con) :
                /\ HasChildWith(con[k], LAMBDA l : Len(l) >= 2 /\ l[1] = "password")
                /\ HasChildWith(con[k], LAMBDA l : StartsWith(l, <<"login">>))
                /\ ~HasChildWith(con[k], LoginLocal)

\* Lines 180-191 of device.py.
VtyObserved(cfg, protocols) ==
    LET vty == FindObjects(cfg, LAMBDA l : StartsWith(l, <<"line", "vty">>))
    IN  IF Len(protocols) = 1
        THEN \E k \in 1..Len(vty) :
                HasChildWith(vty[k], LAMBDA l : StartsWith(l, <<"transport", "input", "ssh">>))
        ELSE \E k \in 1..Len(vty) :
                HasChildWith(vty[k], LAMBDA l :
                    \/ StartsWith(l, <<"transport", "input", "all">>)
                    \/ StartsWith(l, <<"transport", "input", "telnet", "ssh">>)
                    \/ StartsWith(l, <<"transport", "input", "ssh", "telnet">>))

\* "^username <name> ": a username line of that user.
UserLine(cfg, name) == AnyLine(cfg, LAMBDA l : Len(l) >= 3 /\ l[1] = "username" /\ l[2] = name)

\* Lines 135-193 of device.py.
DeviceVerify(I, cfg) ==
    Assign(<<
      WhenMap(Has(I, "device_name"),
        "hostname" :>
            LET found == FindObjects(cfg, LAMBDA l : Len(l) >= 2 /\ l[1] = "hostname")
            IN  found # <<>> /\ found[1].line = <<"hostname", I["device_name"]>>),
      WhenMap(Has(I, "ip_domain_lookup"),
        "ip_domain_lookup" :>
            LET has_no_lookup ==
                    AnyLine(cfg, LAMBDA l : StartsWith(l, <<"no", "ip", "domain-lookup">>))
            IN  IF I["ip_domain_lookup"] THEN ~has_no_lookup ELSE has_no_lookup),
      WhenMap(Has(I, "banner_motd"),
        "banner_motd" :> BannerObserved(cfg, StripCarets(I["banner_motd"]))),
      WhenMap(Has(I, "username"),
        ("username " \o I["username"]) :> UserLine(cfg, I["username"])),
      WhenMap(Has(I, "username_delete"),
        ("removed user " \o I["username_delete"]) :> ~UserLine(cfg, I["username_delete"])),
      WhenMap(Has(I, "enable_passwd"),
        "enable_secret" :> AnyLine(cfg, LAMBDA l : StartsWith(l, <<"enable", "secret">>))),
      WhenMap(IsTrue(I, "password_encryption"),
        "password_encryption" :>
            AnyLine(cfg, LAMBDA l : StartsWith(l, <<"service", "password-encryption">>))),
      WhenMap(Has(I, "console_access")
                /\ I["console_access"] \in {"local_database", "password"},
        "console_access" :> ConsoleObserved(cfg, I["console_access"])),
      WhenMap(Has(I, "vty_protocols") /\ Len(I["vty_protocols"]) >= 1,
        "vty_protocols" :> VtyObserved(cfg, I["vty_protocols"]))
    >>)

\* iface_name of lines 329-331 of router.py.
VerifyIfaceName(I) == IF Has(I, "subiface_num") THEN SubifaceName(I) ELSE I["iface"]

\* Lines 328-363 of router.py: the interface, subinterface and HSRP checks.
IfaceVerify(I, cfg) ==
    LET name == VerifyIfaceName(I)
        objs == IfaceObjs(cfg, name)
        p == objs[1]
    IN  Assign(<<
          WhenMap(Has(I, "subiface_num"), ("iface " \o name \o " present") :> (objs # <<>>)),
          WhenMap(objs # <<>> /\ Has(I, "description"),
            ("iface " \o name \o " description") :>
                HasChildWith(p, LAMBDA l : l = <<"description", I["description"]>>)),
          WhenMap(objs # <<>> /\ Has(I, "ip_address") /\ Has(I, "mask"),
            ("iface " \o name \o " ip") :>
                HasChildWith(p, LAMBDA l :
                    l = <<"ip", "address", Dotted(I["ip_address"]), Dotted(I["mask"])>>)),
          WhenMap(objs # <<>> /\ IsFalse(I, "is_up"),
            ("iface " \o name \o " shutdown") :> HasChildWith(p, LAMBDA l : l = <<"shutdown">>)),
          WhenMap(objs # <<>> /\ IsTrue(I, "is_up"),
            ("iface " \o name \o " no shutdown") :>
                ~HasChildWith(p, LAMBDA l : l = <<"shutdown">>)),
          WhenMap(objs # <<>> /\ HasAll(I, HsrpKeys),
            ("hsrp " \o name) :>
                HasChildWith(p, LAMBDA l :
                    l = <<"standby", ToString(I["hsrp_group"]), "ip",
                          Dotted(I["hsrp_virtual_ip"])>>))
        >>)

\* Lines 368-376 of router.py.
HelperVerify(I, cfg) ==
    LET objs == IfaceObjs(cfg, I["iface"])
    IN  IF objs # <<>>
        THEN ("dhcp helper address " \o I["iface"]) :>
                HasChildWith(objs[1], LAMBDA l :
                    l = <<"ip", "helper-address", Dotted(I["helper_address"])>>)
        ELSE ("dhcp_helper address " \o I["iface"]) :> FALSE

\* Lines 378-385 of router.py.
ExcludedVerify(I, cfg) ==
    LET a == Dotted(I["first_excluded_addr"])
        b == Dotted(I["last_excluded_addr"])
        pat == IF a = b THEN <<"ip", "dhcp", "excluded-address", a>>
               ELSE <<"ip", "dhcp", "excluded-address", a, b>>
    IN  "dhcp excluded addresses" :> AnyLine(cfg, LAMBDA l : l = pat)

\* Lines 387-413 of router.py.
PoolVerify(I, cfg) ==
    LET pool == I["pool_name"]
        objs == PoolObjs(cfg, pool)
        p == objs[1]
        net_ok == HasChildWith(p, LAMBDA l :
                    l = <<"network", Dotted(NetworkAddress(I["pool_network"])),
                          Dotted(Netmask(I["pool_network"].len))>>)
        gw_ok == HasChildWith(p, LAMBDA l : l = <<"default-router", Dotted(I["pool_gateway_ip"])>>)
        dns_ok == IF Has(I, "pool_dns_ip")
                  THEN HasChildWith(p, LAMBDA l : l = <<"dns-server", Dotted(I["pool_dns_ip"])>>)
                  ELSE TRUE
    IN  Assign(<<
          WhenMap(objs # <<>>, ("dhcp pool " \o pool \o " network") :> net_ok),
          WhenMap(objs # <<>>, ("dhcp pool " \o pool \o " gateway") :> gw_ok),
          WhenMap(objs # <<>> /\ Has(I, "pool_dns_ip"), ("dhcp_pool " \o pool \o " dns") :> dns_ok),
          "dhcp pool" :> (objs # <<>> /\ net_ok /\ gw_ok /\ dns_ok)
        >>)

\* Lines 426-429 of router.py: the line the route check matches.
StaticPattern(I) ==
    <<"ip", "route", Dotted(NetworkAddress(I["dest_ip"])), Dotted(Netmask(I["dest_ip"].len)),
      Dotted(I["next_hop"])>>
    \o When(Has(I, "admin_distance") /\ I["admin_distance"] # 1, <<ToString(I["admin_distance"])>>)

\* Lines 417-431 of router.py.
StaticVerify(I, cfg) ==
    ("static route " \o Dotted(NetworkAddress(I["dest_ip"])) \o " "
        \o Dotted(Netmask(I["dest_ip"].len)) \o " " \o Dotted(I["next_hop"])
        \o (IF Has(I, "admin_distance") THEN " " \o ToString(I["admin_distance"]) ELSE ""))
    :> AnyLine(cfg, LAMBDA l : l = StaticPattern(I))

\* Line 464 of router.py.
RedistributePattern == <<"redistribute", "static", "subnets">>

\* Lines 435-465 of router.py.
OspfProcessVerify(I, cfg) ==
    LET pid == ToString(I["process_id"])
        objs == OspfObjs(cfg, I["process_id"])
        p == objs[1]
    IN  Assign(<<
          ("ospf " \o pid \o " present") :> (objs # <<>>),
          WhenMap(objs # <<>> /\ Has(I, "router_id"),
            ("ospf " \o pid \o " router_id") :>
                HasChildWith(p, LAMBDA l : l = <<"router-id", Dotted(I["router_id"])>>)),
          WhenMap(objs # <<>> /\ Has(I, "reference-bandwidth"),
            ("ospf " \o pid \o " reference bandwidth") :>
                HasChildWith(p, LAMBDA l :
                    l = <<"auto-cost", "reference-bandwidth", ToString(I["reference-bandwidth"])>>)),
          WhenMap(objs # <<>> /\ HasAll(I, {"network_ip", "network_area"})
                    /\ ~ParseNetworkStrictRaises(I["network_ip"]),
            ("ospf " \o pid \o " network " \o Dotted(NetworkAddress(I["network_ip"]))) :>
                HasChildWith(p, LAMBDA l :
                    l = <<"network", Dotted(NetworkAddress(I["network_ip"])),
                          Dotted(Hostmask(I["network_ip"].len)), "area",
                          ToString(I["network_area"])>>)),
          WhenMap(objs # <<>> /\ IsTrue(I, "is_redistribute"),
            ("ospf " \o pid \o " redistribute static subnets") :>
                HasChildWith(p, LAMBDA l : l = RedistributePattern))
        >>)

\* Lines 471-500 of router.py: the checks of one interface of iface_list.
OspfIfaceVerify(I, cfg, name) ==
    LET objs == IfaceObjs(cfg, name)
        p == objs[1]
        Check(words) == HasChildWith(p, LAMBDA l : l = words)
    IN  WhenMap(objs # <<>>, Assign(<<
          WhenMap(ParamHas(I, name, "hello_interval"),
            ("ospf " \o name \o " hello") :>
                Check(<<"ip", "ospf", "hello-interval", ToString(I[name]["hello_interval"])>>)),
          WhenMap(ParamHas(I, name, "dead_interval"),
            ("ospf " \o name \o " dead") :>
                Check(<<"ip", "ospf", "dead-interval", ToString(I[name]["dead_interval"])>>)),
          WhenMap(ParamHas(I, name, "priority"),
            ("ospf " \o name \o "_priority") :>
                Check(<<"ip", "ospf", "priority", ToString(I[name]["priority"])>>)),
          WhenMap(ParamHas(I, name, "cost"),
            ("ospf " \o name \o " cost") :>
                Check(<<"ip", "ospf", "cost", ToString(I[name]["cost"])>>)),
          WhenMap(ParamIsTrue(I, name, "is_pint_to_point"),
            ("ospf " \o name \o " p2p") :> Check(<<"ip", "ospf", "network", "point-to-point">>))
        >>))

\* Lines 502-503: the listed interfaces found in the config whose values
\* carry is_passive (whatever its value).
VerifyPassiveIfaces(I, cfg) ==
    SelectSeq(IfaceListNames(I),
              LAMBDA name : IfaceObjs(cfg, name) # <<>> /\ ParamHas(I, name, "is_passive"))

\* Lines 505-512 of router.py.
PassiveVerify(I, cfg) ==
    LET passive == VerifyPassiveIfaces(I, cfg)
        p_router == OspfObjs(cfg, I["process_id"])[1]
    IN  Assign([k \in 1..Len(passive) |->
                  ("ospf " \o ToString(I["process_id"]) \o " passive " \o passive[k]) :>
                      HasChildWith(p_router, LAMBDA l : l = <<"passive-interface", passive[k]>>)])

\* Lines 468-512 of router.py.
OspfIfaceListVerify(I, cfg) ==
    Assign(<<
      Assign([k \in 1..Len(I["iface_list"]) |-> OspfIfaceVerify(I, cfg, IfaceListNames(I)[k])]),
      WhenMap(VerifyPassiveIfaces(I, cfg) # <<>>, PassiveVerify(I, cfg))
    >>)

PoolKeys == {"pool_name", "pool_network", "pool_gateway_ip"}

\* What Router.verify_config_applied raises after the running-config was
\* fetched ("none" when it returns), at the first raise site in code order:
\* IPv4Network(..., strict=False) of lines 391 and 422, the strict
\* IPv4Network of line 454, configuration[name] of line 477,
\* configuration["process_id"] of line 506 and ospf_objs[0] of line 508.
RouterVerifyRaised(I, cfg) ==
    IF HasAll(I, PoolKeys) /\ ParseNetworkRaises(I["pool_network"]) THEN "ValueError"
    ELSE IF HasAll(I, {"dest_ip", "next_hop"}) /\ ParseNetworkRaises(I["dest_ip"])
    THEN "ValueError"
    ELSE IF /\ Has(I, "process_id") /\ OspfObjs(cfg, I["process_id"]) # <<>>
            /\ HasAll(I, {"network_ip", "network_area"})
            /\ ParseNetworkStrictRaises(I["network_ip"])
    THEN "ValueError"
    ELSE IF /\ Has(I, "iface_list")
            /\ \E k \in 1..Len(I["iface_list"]) :
                  /\ IfaceObjs(cfg, IfaceListNames(I)[k]) # <<>>
                  /\ ~Has(I, IfaceListNames(I)[k])
    THEN "KeyError"
    ELSE IF Has(I, "iface_list") /\ VerifyPassiveIfaces(I, cfg) # <<>> /\ ~Has(I, "process_id")
    THEN "KeyError"
    ELSE IF /\ Has(I, "iface_list") /\ VerifyPassiveIfaces(I, cfg) # <<>>
            /\ OspfObjs(cfg, I["process_id"]) = <<>>
    THEN "IndexError"
    ELSE "none"

\* Lines 328-512 of router.py: the router's own checks.
RouterChecks(I, cfg) ==
    Assign(<<
      WhenMap(Has(I, "iface"), IfaceVerify(I, cfg)),
      WhenMap(Has(I, "helper_address") /\ Has(I, "iface"), HelperVerify(I, cfg)),
      WhenMap(HasAll(I, {"first_excluded_addr", "last_excluded_addr"}), ExcludedVerify(I, cfg)),
      WhenMap(HasAll(I, PoolKeys), PoolVerify(I, cfg)),
      WhenMap(HasAll(I, {"dest_ip", "next_hop"}), StaticVerify(I, cfg)),
      WhenMap(Has(I, "process_id"), OspfProcessVerify(I, cfg)),
      WhenMap(Has(I, "iface_list"), OspfIfaceListVerify(I, cfg))
    >>)

\* Lines 324-514 of router.py: the result map of a call that returns, the
\* device checks on the config Device fetched and the router checks on the
\* config Router fetched.
RouterVerify(I, device_cfg, router_cfg) ==
    Assign(<<DeviceVerify(I, device_cfg), RouterChecks(I, router_cfg)>>)

(***************************************************************************)
(* The running-config a device shows for a list of pushed lines, as        *)
(* CiscoConfParse reads it: each sub-command under the block of the parent *)
(* line that precedes it, a parent line entered twice keeping one block.   *)
(***************************************************************************)
IsParentLine(l) ==
    \/ l[1] \in {"interface", "router", "line"}
    \/ StartsWith(l, <<"ip", "dhcp", "pool">>)

IsGlobalLine(l) ==
    \/ l[1] \in {"hostname", "username", "banner", "service", "enable"}
    \/ StartsWith(l, <<"ip", "domain-lookup">>)
    \/ StartsWith(l, <<"no", "ip", "domain-lookup">>)
    \/ StartsWith(l, <<"no", "username">>)
    \/ StartsWith(l, <<"ip", "dhcp", "excluded-address">>)
    \/ StartsWith(l, <<"ip", "route">>)

BlockIndex(cfg, l) ==
    IF \E k \in 1..Len(cfg) : cfg[k].line = l
    THEN CHOOSE k \in 1..Len(cfg) : cfg[k].line = l
    ELSE Len(cfg) + 1

RECURSIVE ParseFrom(_, _, _)
ParseFrom(lines, cfg, cur) ==
    IF lines = <<>> THEN cfg
    ELSE LET l == Head(lines)
         IN  IF IsParentLine(l)
             THEN ParseFrom(Tail(lines),
                            IF BlockIndex(cfg, l) > Len(cfg) THEN Append(cfg, Block(l, <<>>))
                            ELSE cfg,
                            BlockIndex(cfg, l))
             ELSE IF IsGlobalLine(l) \/ cur = 0
             THEN ParseFrom(Tail(lines), Append(cfg, Block(l, <<>>)), 0)
             ELSE ParseFrom(Tail(lines),
                            [cfg EXCEPT ![cur].children = Append(@, l)],
                            cur)

\* running_config.splitlines() handed to CiscoConfParse.
RunningConfigOf(lines) == ParseFrom(lines, <<>>, 0)

\* The running-configs a fetch can return after the lines were pushed: all
\* of them applied, one block missing, one sub-command missing, or none.
WithoutBlock(cfg, k) == SubSeq(cfg, 1, k - 1) \o SubSeq(cfg, k + 1, Len(cfg))

WithoutChild(cfg, k, c) ==
    [cfg EXCEPT ![k].children = SubSeq(@, 1, c - 1) \o SubSeq(@, c + 1, Len(@))]

FetchedConfigs(lines) ==
    LET full == RunningConfigOf(lines)
    IN  {full, <<>>}
        \cup {WithoutBlock(full, k) : k \in 1..Len(full)}
        \cup UNION {{WithoutChild(full, k, c) : c \in 1..Len(full[k].children)} :
                        k \in 1..Len(full)}

(***************************************************************************)
(* The device model and its update from an applied intent: Device.update,  *)
(* Security.update, Router.update and the updates of the router's parts.   *)
(***************************************************************************)
None == "None"

\* normalize_iface on the interface names of the intents: the alias "g"
\* becomes "GigabitEthernet", the id and the subinterface are kept.
NormalizeIface(name) ==
    CASE name = "g0/1" -> "GigabitEthernet0/1"
      [] name = "g0/2" -> "GigabitEthernet0/2"
      [] name = "g0/1.10" -> "GigabitEthernet0/1.10"
      [] name = "g0/2.10" -> "GigabitEthernet0/2.10"
      [] OTHER -> name

\* L3Interface(name, is_up): the other attributes default to None; an
\* l3_redundancy of None is the empty sequence, a dict a sequence of one.
L3Interface(name, is_up) ==
    [name |-> NormalizeIface(name), is_up |-> is_up, description |-> None,
     ip_address |-> None, netmask |-> None, l3_redundancy |-> <<>>]

\* The state of an update in progress: the model so far and the exception
\* that stopped it ("none" while it runs).
Running(d) == [d |-> d, raised |-> "none"]

\* One statement of an update: skipped once an exception was raised, raising
\* exc when fails holds, assigning the new model otherwise.
Stmt(r, applies, fails, exc, d) ==
    IF r.raised # "none" \/ ~applies THEN r
    ELSE IF fails THEN [r EXCEPT !.raised = exc]
    ELSE [r EXCEPT !.d = d]

\* self.users.remove(user) of the first user with that name.
RECURSIVE RemoveFirstUser(_, _)
RemoveFirstUser(users, name) ==
    IF users = <<>> THEN <<>>
    ELSE IF Head(users).username = name THEN Tail(users)
    ELSE <<Head(users)>> \o RemoveFirstUser(Tail(users), name)

\* Lines 26-40 of security.py.
SecurityUpdate(sec, I) ==
    [is_encrypted |-> IF Has(I, "password_encryption") THEN I["password_encryption"]
                      ELSE sec.is_encrypted,
     console_access |-> IF Has(I, "console_access") THEN I["console_access"]
                        ELSE sec.console_access,
     vty_protocols |-> IF Has(I, "vty_protocols") THEN I["vty_protocols"]
                       ELSE sec.vty_protocols,
     enable_by_password |-> IF Has(I, "enable_passwd") THEN I["enable_passwd"]
                            ELSE sec.enable_by_password]

\* Lines 43-61 of device.py.
DeviceUpdate(r, I) ==
    LET r1 == Stmt(r, Has(I, "device_name"), FALSE, "",
                   [r.d EXCEPT !.device_name = I["device_name"]])
        r2 == Stmt(r1, Has(I, "ip_domain_lookup"), FALSE, "",
                   [r1.d EXCEPT !.ip_domain_lookup = I["ip_domain_lookup"]])
        r3 == Stmt(r2, Has(I, "username"), ~Has(I, "privilege"), "KeyError",
                   [r2.d EXCEPT !.users =
                       Append(@, [username |-> I["username"], privilege |-> I["privilege"]])])
        r4 == Stmt(r3, Has(I, "username_delete"), FALSE, "",
                   [r3.d EXCEPT !.users = RemoveFirstUser(@, I["username_delete"])])
        r5 == Stmt(r4, Has(I, "banner_motd"), FALSE, "",
                   [r4.d EXCEPT !.banner = I["banner_motd"]])
    IN  Stmt(r5, TRUE, FALSE, "", [r5.d EXCEPT !.security = SecurityUpdate(@, I)])

\* Interface.update and L3Interface.update, lines 67-79 of interface.py and
\* 35-51 of l3_interface.py, on one interface; the intents carry no "ospf"
\* key, so lines 53-65 assign nothing.
InterfaceUpdate(iface, I) ==
    [iface EXCEPT
       !.description = IF Has(I, "description") THEN I["description"] ELSE @,
       !.is_up = IF Has(I, "is_up") THEN I["is_up"] ELSE @,
       !.ip_address = IF Has(I, "ip_address") THEN I["ip_address"] ELSE @,
       !.netmask = IF Has(I, "mask") THEN I["mask"] ELSE @,
       !.l3_redundancy = IF Has(I, "hsrp_group")
                         THEN <<[hsrp_group |-> I["hsrp_group"],
                                 hsrp_virtual_ip |-> I["hsrp_virtual_ip"],
                                 hsrp_priority |-> I["hsrp_priority"],
                                 preempt |-> I["preempt"]]>>
                         ELSE @]

\* What L3Interface.update raises on one interface.
InterfaceUpdateRaises(iface, I) ==
    Has(I, "hsrp_group")
        /\ (Len(iface.l3_redundancy) = 0 \/ ~HasAll(I, HsrpKeys))

\* Lines 72-79 of router.py: the interface named by the intent.  The loop
\* stops at the first interface whose update raises.
IfaceUpdate(r, I) ==
    LET ifs == r.d.interfaces
        Matches(k) == NormalizeIface(I["iface"]) = ifs[k].name
    IN  IF Has(I, "subiface_num")
        THEN Stmt(r, TRUE, FALSE, "",
                  [r.d EXCEPT !.interfaces = Append(@, L3Interface(SubifaceName(I), FALSE))])
        ELSE Stmt(r, TRUE,
                  \E k \in 1..Len(ifs) : Matches(k) /\ InterfaceUpdateRaises(ifs[k], I),
                  IF \E k \in 1..Len(ifs) :
                        Matches(k) /\ Len(ifs[k].l3_redundancy) = 0 /\ Has(I, "hsrp_group")
                  THEN "TypeError" ELSE "KeyError",
                  [r.d EXCEPT !.interfaces =
                      [k \in 1..Len(ifs) |->
                          IF Matches(k) THEN InterfaceUpdate(ifs[k], I) ELSE ifs[k]]])

\* Lines 28-36 of routing_process.py on one OSPF process.
OspfUpdate(o, I) ==
    [o EXCEPT
       !.bw_cost = IF Has(I, "reference-bandwidth") THEN I["reference-bandwidth"] ELSE @,
       !.networks = IF Has(I, "network_ip")
                    THEN Append(@, [network |-> I["network_ip"],
                                    network_area |-> I["network_area"]])
                    ELSE @,
       !.router_id = IF Has(I, "router_id") THEN I["router_id"] ELSE @,
       !.redistribute = IF Has(I, "is_redistribute") THEN I["is_redistribute"] ELSE @]

\* config_info.get(k): the value, or None.
Get(I, k) == IF Has(I, k) THEN I[k] ELSE None

\* Lines 115-125 of routing_process.py: the OSPF process of an intent whose
\* process_id the model does not hold yet.
NewOspf(I) ==
    [id |-> I["process_id"], bw_cost |-> Get(I, "reference-bandwidth"),
     networks |-> IF Has(I, "network_ip")
                  THEN <<[network |-> I["network_ip"], network_area |-> I["network_area"]]>>
                  ELSE <<>>,
     router_id |-> Get(I, "router_id"), redistribute |-> Get(I, "is_redistribute")]

RoutingUpdateAlwaysAppends(r, I) ==
    Stmt(r, Has(I, "process_id"), FALSE, "none",
         [r.d EXCEPT !.ospf_processes = Append(@, NewOspf(I))])

\* Lines 97-125 of routing_process.py.
RoutingUpdate(r, I) ==
    LET r1 == Stmt(r, HasAll(I, {"dest_ip", "next_hop", "admin_distance"}),
                   ParseNetworkStrictRaises(I["dest_ip"]), "ValueError",
                   [r.d EXCEPT !.static_routes =
                       Append(@, [destination |-> I["dest_ip"], next_hop |-> I["next_hop"],
                                  admin_dist |-> I["admin_distance"]])])
        held == Has(I, "process_id")
                   /\ \E k \in 1..Len(r1.d.ospf_processes) :
                          r1.d.ospf_processes[k].id = I["process_id"]
        \* line 29 runs before line 31 can raise
        r2 == Stmt(r1, held /\ Has(I, "reference-bandwidth"), FALSE, "none",
                   [r1.d EXCEPT !.ospf_processes =
                       LET ps == r1.d.ospf_processes
                           first == CHOOSE k \in 1..Len(ps) :
                                       /\ ps[k].id = I["process_id"]
                                       /\ \A j \in 1..k - 1 : ps[j].id # I["process_id"]
                       IN  [ps EXCEPT ![first].bw_cost = I["reference-bandwidth"]]])
        os == r2.d.ospf_processes
    IN  Stmt(r2, Has(I, "process_id"),
             Has(I, "network_ip")
                /\ (ParseNetworkStrictRaises(I["network_ip"]) \/ ~Has(I, "network_area")),
             IF ParseNetworkStrictRaises(I["network_ip"]) THEN "ValueError" ELSE "KeyError",
             [r2.d EXCEPT !.ospf_processes =
                 IF \E k \in 1..Len(os) : os[k].id = I["process_id"]
                 THEN LET first == CHOOSE k \in 1..Len(os) :
                                      /\ os[k].id = I["process_id"]
                                      /\ \A j \in 1..k - 1 : os[j].id # I["process_id"]
                      IN  [os EXCEPT ![first] = OspfUpdate(@, I)]
                 ELSE Append(os, NewOspf(I))])

\* Lines 35-41 of dhcp.py.
DhcpUpdate(r, I) ==
    LET r1 == Stmt(r, Has(I, "first_excluded_addr"), ~Has(I, "last_excluded_addr"),
                   "KeyError",
                   [r.d EXCEPT !.excluded_addresses =
                       Append(@, [start |-> I["first_excluded_addr"],
                                  end |-> I["last_excluded_addr"]])])
    IN  Stmt(r1, Has(I, "pool_name"),
             ~HasAll(I, PoolKeys) \/ ParseNetworkStrictRaises(I["pool_network"]),
             IF ~Has(I, "pool_network") THEN "KeyError"
             ELSE IF ParseNetworkStrictRaises(I["pool_network"]) THEN "ValueError"
             ELSE "KeyError",
             [r1.d EXCEPT !.pools =
                 Append(@, [name |-> I["pool_name"], network |-> I["pool_network"],
                            default_router |-> I["pool_gateway_ip"]])])

\* Lines 57-87 of router.py; the comparison of line 83 is between an item of
\* iface_list (a dict) and an interface name (a str), which are never
\* equal, so the loop of lines 81-84 updates nothing.
RouterUpdate(d, I) ==
    LET r1 == DeviceUpdate(Running(d), I)
        r2 == IF Has(I, "iface") THEN IfaceUpdate(r1, I) ELSE r1
        r3 == RoutingUpdate(r2, I)
    IN  DhcpUpdate(r3, I)

\* "x is True" on a value that may be a boolean, a string or None.
IsPyTrue(v) == ToString(v) = ToString(TRUE)

\* "x is not None"
IsNotNone(v) == ToString(v) # ToString(None)

\* Lines 62-82 of security.py: the dict of the values that are kept, None
\* (the empty map here) when there is none.
SecurityGetConfig(sec) ==
    Assign(<<
      WhenMap(IsNotNone(sec.console_access), "console_access" :> sec.console_access),
      WhenMap(IsPyTrue(sec.enable_by_password),
              "enable_by_password" :> sec.enable_by_password),
      WhenMap(IsPyTrue(sec.is_encrypted), "is_encrypted" :> sec.is_encrypted),
      WhenMap(Len(sec.vty_protocols) > 1, "vty_protocols" :> sec.vty_protocols)
    >>)

\* Lines 88-109 of device.py.
DeviceGetConfig(d) ==
    Assign(<<
      WhenMap(DOMAIN SecurityGetConfig(d.security) # {},
              "security" :> SecurityGetConfig(d.security)),
      WhenMap(Len(d.users) > 1, "users" :> d.users),
      WhenMap(IsNotNone(d.banner), "banner" :> d.banner),
      "ip_domain_lookup" :> d.ip_domain_lookup
    >>)

(***************************************************************************)
(* normalize_iface of interface.py.  A text is the sequence of its         *)
(* characters.                                                             *)
(***************************************************************************)
UpperLetters == <<"A", "B", "C", "D", "E", "F", "G", "H", "I", "J", "K", "L", "M", "N", "O", "P", "Q", "R", "S", "T", "U", "V", "W", "X", "Y", "Z">>

LowerLetters == <<"a", "b", "c", "d", "e", "f", "g", "h", "i", "j", "k", "l", "m", "n", "o", "p", "q", "r", "s", "t", "u", "v", "w", "x", "y", "z">>

Digits == {"0", "1", "2", "3", "4", "5", "6", "7", "8", "9"}

\* str.lower() on one character
LowerChar(c) ==
    IF \E k \in 1..26 : UpperLetters[k] = c
    THEN LowerLetters[CHOOSE k \in 1..26 : UpperLetters[k] = c]
    ELSE c

KeepCase(s) == s

\* str.lower()
ToLower(s) == [k \in 1..Len(s) |-> LowerChar(s[k])]

\* str.strip() followed by replace(" ", ""): no space is left.
WithoutSpaces(s) == SelectSeq(s, LAMBDA c : c # " ")

\* ALIAS_MAP of lines 3-13: each alias with the family name it stands for.
ALIAS_MAP ==
    { [alias |-> <<"g">>, family |-> <<"G", "i", "g", "a", "b", "i", "t", "E", "t", "h", "e", "r", "n", "e", "t">>],
      [alias |-> <<"g", "i">>, family |-> <<"G", "i", "g", "a", "b", "i", "t", "E", "t", "h", "e", "r", "n", "e", "t">>],
      [alias |-> <<"g", "i", "g", "a", "b", "i", "t", "e", "t", "h", "e", "r", "n", "e", "t">>, family |-> <<"G", "i", "g", "a", "b", "i", "t", "E", "t", "h", "e", "r", "n", "e", "t">>],
      [alias |-> <<"f">>, family |-> <<"F", "a", "s", "t", "E", "t", "h", "e", "r", "n", "e", "t">>],
      [alias |-> <<"f", "a">>, family |-> <<"F", "a", "s", "t", "E", "t", "h", "e", "r", "n", "e", "t">>],
      [alias |-> <<"f", "a", "s", "t", "e", "t", "h", "e", "r", "n", "e", "t">>, family |-> <<"F", "a", "s", "t", "E", "t", "h", "e", "r", "n", "e", "t">>],
      [alias |-> <<"e">>, family |-> <<"E", "t", "h", "e", "r", "n", "e", "t">>],
      [alias |-> <<"e", "t", "h">>, family |-> <<"E", "t", "h", "e", "r", "n", "e", "t">>],
      [alias |-> <<"e", "t", "h", "e", "r", "n", "e", "t">>, family |-> <<"E", "t", "h", "e", "r", "n", "e", "t">>] }

\* \d+
IsDigits(s) == s # <<>> /\ \A k \in 1..Len(s) : s[k] \in Digits

\* \d+(?:/\d+)*
RECURSIVE IsPhysicalId(_)
IsPhysicalId(s) ==
    \/ IsDigits(s)
    \/ \E k \in 2..Len(s) - 1 :
          /\ s[k] = "/"
          /\ IsDigits(SubSeq(s, 1, k - 1))
          /\ IsPhysicalId(SubSeq(s, k + 1, Len(s)))

\* The ways _iface_re (lines 16-21) matches the whole of s: the alias, the
\* physical id and the subinterface number (empty when there is none).
Matches(s) ==
    { [prefix |-> a.alias, id |-> SubSeq(s, Len(a.alias) + 1, e),
       sub |-> SubSeq(s, e + 2, Len(s))] :
        a \in {b \in ALIAS_MAP : Len(b.alias) < Len(s)
                                    /\ SubSeq(s, 1, Len(b.alias)) = b.alias},
        e \in 1..Len(s) }

IfaceMatches(s) ==
    {m \in Matches(s) :
        /\ IsPhysicalId(m.id)
        /\ Len(m.prefix) + Len(m.id) <= Len(s)
        /\ \/ Len(m.prefix) + Len(m.id) = Len(s) /\ m.sub = <<>>
           \/ /\ Len(m.prefix) + Len(m.id) < Len(s)
              /\ s[Len(m.prefix) + Len(m.id) + 1] = "."
              /\ IsDigits(m.sub)}

\* Lines 33-41 of interface.py.
normalize_iface(text) ==
    LET s == WithoutSpaces(ToLower(text))
    IN  IF IfaceMatches(s) = {} THEN s
        ELSE LET m == CHOOSE x \in IfaceMatches(s) : TRUE
                 full == (CHOOSE a \in ALIAS_MAP : a.alias = m.prefix).family
             IN  full \o m.id \o (IF m.sub # <<>> THEN <<".">> \o m.sub ELSE <<>>)

(***************************************************************************)
(* State.  The allocator's variables are those of one call of              *)
(* __generate_subnetting__; the others are those of a device controller:   *)
(* its router model, the intent being applied, and what the steps of       *)
(* __execute_device_config__ produced.                                     *)
(***************************************************************************)
VARIABLES alloc_pc, base_network, devices_per_network, networks, next_demand,
          current_subnet_pool, subnets, result_subnetting, displayed,
          pc, device, device_config, config_lines, raised, running_config,
          router_parse, device_parse, verify, events, push_calls, cycles

allocVars == <<alloc_pc, base_network, devices_per_network, networks, next_demand,
               current_subnet_pool, subnets, result_subnetting, displayed>>

deviceVars == <<pc, device, device_config, config_lines, raised, running_config,
                router_parse, device_parse, verify, events, push_calls, cycles>>

\* The variables of a call of normalize_iface: the text it is given, the
\* interface that text spells (None when it spells no Ethernet interface),
\* and what the call returned.
VARIABLES norm_pc, norm_name, spelled, normalized

normVars == <<norm_pc, norm_name, spelled, normalized>>

\* MainController: the configuration file start() loads, the list of device
\* controllers, the position in start()/run() and the number of menu
\* operations carried out.
VARIABLES fleet_pc, config_file, device_controllers, fleet_ops

fleetVars == <<fleet_pc, config_file, device_controllers, fleet_ops>>

vars == <<allocVars, deviceVars, normVars, fleetVars>>

\* Router(...) of lines 112-117 of device_controller.py: the model built
\* from what the device reported, one interface, ssh among the vty protocols.
InitialRouters ==
    { [device_name |-> "R1", ip_domain_lookup |-> FALSE, users |-> <<>>, banner |-> None,
       security |-> [is_encrypted |-> FALSE, console_access |-> None,
                     enable_by_password |-> FALSE, vty_protocols |-> v],
       interfaces |-> << [L3Interface("g0/1", TRUE) EXCEPT !.l3_redundancy = r] >>,
       static_routes |-> <<>>, ospf_processes |-> <<>>,
       excluded_addresses |-> <<>>, pools |-> <<>>] :
      v \in {<<"ssh">>, <<"ssh", "telnet">>},
      r \in {<<>>, <<[hsrp_group |-> None, hsrp_virtual_ip |-> None,
                      hsrp_priority |-> None, preempt |-> None]>>} }

\* The same model when the device reported an OSPF process (lines 299-330 of
\* connector.py): the values its running-config does not show are None.
LoadedRouters ==
    { [d EXCEPT !.ospf_processes =
          <<[id |-> 1, bw_cost |-> None, networks |-> <<>>, router_id |-> None,
             redistribute |-> FALSE]>>] :
      d \in {e \in InitialRouters : Len(e.security.vty_protocols) = 1
                                       /\ e.interfaces[1].l3_redundancy = <<>>} }

\* No call of normalize_iface in progress.
NormIdle == norm_pc = "idle" /\ norm_name = <<>> /\ spelled = <<>> /\ normalized = <<>>

\* No MainController running.
FleetIdle ==
    fleet_pc = "idle" /\ config_file = <<>> /\ device_controllers = <<>> /\ fleet_ops = 0

\* No allocation in progress.
AllocIdle ==
    /\ alloc_pc = "idle"
    /\ base_network = [addr |-> TenNet, prefix |-> 24]
    /\ devices_per_network = <<>>
    /\ networks = <<>>
    /\ next_demand = 1
    /\ current_subnet_pool = <<>>
    /\ subnets = <<>>
    /\ result_subnetting = NoResult
    /\ displayed = FALSE

\* No device controller at work.
DeviceIdle ==
    /\ pc = "idle"
    /\ device \in {d \in InitialRouters :
                      Len(d.security.vty_protocols) = 1 /\ d.interfaces[1].l3_redundancy # <<>>}
    /\ device_config = EmptyIntent
    /\ config_lines = <<>>
    /\ raised = "none"
    /\ running_config = <<>>
    /\ router_parse = <<>>
    /\ device_parse = <<>>
    /\ verify = EmptyResults
    /\ events = <<>>
    /\ push_calls = <<>>
    /\ cycles = 0

AllocInit ==
    /\ DeviceIdle
    /\ NormIdle
    /\ FleetIdle
    /\ alloc_pc = "entry"
    /\ base_network \in BaseNetworks
    /\ devices_per_network \in SeqsUpTo(DemandValues, MaxDemands)
    /\ networks = <<>>
    /\ next_demand = 1
    /\ current_subnet_pool = <<>>
    /\ subnets = <<>>
    /\ result_subnetting = NoResult
    /\ displayed = FALSE

\* Lines 52-63: pair, sort, and start with the base network as the only block.
AllocSort ==
    /\ alloc_pc = "entry"
    /\ networks' = InsertionSort(Enumerate(devices_per_network))
    /\ current_subnet_pool' = <<base_network>>
    /\ subnets' = <<>>
    /\ next_demand' = 1
    /\ alloc_pc' = "loop"
    /\ UNCHANGED <<base_network, devices_per_network, result_subnetting, displayed>>
    /\ UNCHANGED <<deviceVars, normVars, fleetVars>>

\* One iteration of "for idx, devices in networks" that finds a block.
AllocPlace ==
    /\ alloc_pc = "loop"
    /\ next_demand <= Len(networks)
    /\ LET prefix == NeededPrefix(networks[next_demand].devices)
           i == FirstFit(current_subnet_pool, prefix)
       IN  /\ i # 0
           /\ LET new_subnets == SubnetsOf(current_subnet_pool[i], prefix)
              IN  /\ subnets' = Append(subnets, [idx |-> networks[next_demand].idx,
                                                subnet |-> new_subnets[1]])
                  /\ current_subnet_pool' = PoolAfter(current_subnet_pool, i, new_subnets)
    /\ next_demand' = next_demand + 1
    /\ UNCHANGED <<alloc_pc, base_network, devices_per_network, networks,
                   result_subnetting, displayed>>
    /\ UNCHANGED <<deviceVars, normVars, fleetVars>>

\* The for-else branch: no block of the pool can hold the demand.
AllocRaise ==
    /\ alloc_pc = "loop"
    /\ next_demand <= Len(networks)
    /\ FirstFit(current_subnet_pool, NeededPrefix(networks[next_demand].devices)) = 0
    /\ LET out == RaiseOutcome(subnets)
       IN  /\ alloc_pc' = out.pc
           /\ result_subnetting' = out.result
           /\ displayed' = out.returned
    /\ UNCHANGED <<base_network, devices_per_network, networks, next_demand,
                   current_subnet_pool, subnets>>
    /\ UNCHANGED <<deviceVars, normVars, fleetVars>>

\* Lines 86-88 and run()'s display of the returned list.
AllocReturn ==
    /\ alloc_pc = "loop"
    /\ next_demand > Len(networks)
    /\ result_subnetting' = SortedResult(subnets)
    /\ displayed' = TRUE
    /\ alloc_pc' = "returned"
    /\ UNCHANGED <<base_network, devices_per_network, networks, next_demand,
                   current_subnet_pool, subnets>>
    /\ UNCHANGED <<deviceVars, normVars, fleetVars>>

AllocNext == AllocSort \/ AllocPlace \/ AllocRaise \/ AllocReturn

SpecAlloc == AllocInit /\ [][AllocNext]_vars

(***************************************************************************)
(* Router.config and Router.verify_config_applied as functions: one call   *)
(* of each on an intent drawn from the feature groups, the verifier        *)
(* reading a running-config fetched after the compiled lines were sent.    *)
(***************************************************************************)
EngineInit ==
    /\ AllocIdle
    /\ NormIdle
    /\ FleetIdle
    /\ pc = "config"
    /\ device \in InitialRouters
    /\ device_config \in Intents \cup MixedIntents
    /\ config_lines = <<>>
    /\ raised = "none"
    /\ running_config = <<>>
    /\ router_parse = <<>>
    /\ device_parse = <<>>
    /\ verify = EmptyResults
    /\ events = <<>>
    /\ push_calls = <<>>
    /\ cycles = 0

\* self.device.config(device_config)
EngineConfig ==
    /\ pc = "config"
    /\ raised' = RouterConfigRaised(device_config)
    /\ config_lines' = IF raised' = "none" THEN RouterConfig(device_config) ELSE <<>>
    /\ pc' = IF raised' = "none" THEN "fetch" ELSE "config_raised"
    /\ UNCHANGED <<device, device_config, running_config, router_parse, device_parse,
                   verify, events, push_calls, cycles>>
    /\ UNCHANGED <<allocVars, normVars, fleetVars>>

\* The two fetches of the running-config and their parses.
EngineFetch ==
    /\ pc = "fetch"
    /\ running_config' \in FetchedConfigs(config_lines)
    /\ router_parse' = running_config'
    /\ device_parse' = running_config'
    /\ pc' = "verify"
    /\ UNCHANGED <<device, device_config, config_lines, raised, verify, events,
                   push_calls, cycles>>
    /\ UNCHANGED <<allocVars, normVars, fleetVars>>

\* The checks of self.device.verify_config_applied(device_config).
EngineVerify ==
    /\ pc = "verify"
    /\ raised' = RouterVerifyRaised(device_config, router_parse)
    /\ verify' = IF raised' = "none"
                 THEN RouterVerify(device_config, device_parse, router_parse)
                 ELSE EmptyResults
    /\ pc' = IF raised' = "none" THEN "verified" ELSE "verify_raised"
    /\ UNCHANGED <<device, device_config, config_lines, running_config, router_parse,
                   device_parse, events, push_calls, cycles>>
    /\ UNCHANGED <<allocVars, normVars, fleetVars>>

EngineNext == EngineConfig \/ EngineFetch \/ EngineVerify

SpecEngine == EngineInit /\ [][EngineNext]_vars

(***************************************************************************)
(* The device configuration cycle: __execute_device_config__ called by     *)
(* create_device and configure_device with a non-empty intent, one step of *)
(* the handler per action.  An exception other than RuntimeError leaves    *)
(* the handler and ends the run.                                           *)
(***************************************************************************)
\* The intents the menus and a configuration file hand to the cycle.
CycleIntents ==
    { "device_name" :> "R2",
      ("username" :> "bob") @@ ("password" :> "s3cret") @@ ("privilege" :> 15),
      ("username" :> "eve") @@ ("password" :> "s3cret"),
      ("username" :> "Bob") @@ ("password" :> "s3cret") @@ ("privilege" :> 1),
      "password_encryption" :> FALSE,
      "enable_passwd" :> "s3cret",
      "vty_protocols" :> <<"ssh">>,
      "vty_protocols" :> <<"ssh", "telnet">>,
      "vty_protocols" :> <<"telnet">>,
      "save_config" :> TRUE,
      ("iface" :> "g0/1") @@ ("description" :> "uplink") @@ ("is_up" :> TRUE),
      ("iface" :> "g0/1") @@ ("subiface_num" :> "10"),
      ("dest_ip" :> [form |-> "cidr", addr |-> <<192, 168, 2, 0>>, len |-> 24])
          @@ ("next_hop" :> <<10, 0, 0, 2>>) @@ ("admin_distance" :> 5),
      ("dest_ip" :> [form |-> "cidr", addr |-> <<192, 168, 2, 0>>, len |-> 24])
          @@ ("next_hop" :> <<10, 0, 0, 2>>),
      ("first_excluded_addr" :> <<10, 0, 0, 2>>) @@ ("last_excluded_addr" :> <<10, 0, 0, 1>>),
      ("process_id" :> 1) @@ ("router_id" :> <<1, 1, 1, 1>>),
      ("process_id" :> 2) @@ ("reference-bandwidth" :> 1000),
      ("process_id" :> 1) @@ ("network_ip" :> [form |-> "cidr", addr |-> <<10, 0, 0, 0>>,
                                               len |-> 24])
          @@ ("network_area" :> 0) @@ ("is_redistribute" :> TRUE),
      ("process_id" :> 1) @@ ("reference-bandwidth" :> 500)
          @@ ("network_ip" :> [form |-> "cidr", addr |-> <<10, 0, 0, 1>>, len |-> 24])
          @@ ("network_area" :> 0),
      ("process_id" :> 1) @@ ("iface_list" :> <<[name |-> "g0/1"]>>)
          @@ ("g0/1" :> [is_passive |-> FALSE]) }

\* The order of the statements of lines 52-76 of device_controller.py and
\* of the fetches inside verify_config_applied: the step that follows each.
StepAfterVerifyFirst ==
    [config |-> "fetch_router", fetch_router |-> "fetch_device", fetch_device |-> "check",
     check |-> "push", push |-> "update", update |-> "save", save |-> "idle"]

StepAfter ==
    [config |-> "push", push |-> "fetch_router", fetch_router |-> "fetch_device",
     fetch_device |-> "check", check |-> "update", update |-> "save", save |-> "idle"]

CaughtAnyException(exc) == TRUE

\* Lines 78-79 of device_controller.py: "except RuntimeError" is the only
\* handler of the cycle.
Caught(exc) == exc = "RuntimeError"

\* Where the cycle goes when a step raises: back to the caller after the
\* error was printed, or out of the program with the exception.
AfterRaise(exc) == IF Caught(exc) THEN "idle" ELSE "crashed"

CycleInit ==
    /\ AllocIdle
    /\ NormIdle
    /\ FleetIdle
    /\ pc = "idle"
    /\ device \in InitialRouters \cup LoadedRouters
    /\ device_config = EmptyIntent
    /\ config_lines = <<>>
    /\ raised = "none"
    /\ running_config = <<>>
    /\ router_parse = <<>>
    /\ device_parse = <<>>
    /\ verify = EmptyResults
    /\ events = <<>>
    /\ push_calls = <<>>
    /\ cycles = 0

\* The call of __execute_device_config__ and its lines 46-50: a device_name
\* of the intent is written to the model before anything is compiled.
ExecuteDeviceConfig ==
    /\ pc = "idle"
    /\ cycles < MaxCycles
    /\ \E I \in CycleIntents :
          /\ device_config' = I
          /\ device' = IF Has(I, "device_name")
                       THEN RouterUpdate(device, "device_name" :> I["device_name"]).d
                       ELSE device
    /\ cycles' = cycles + 1
    /\ config_lines' = <<>>
    /\ verify' = EmptyResults
    /\ events' = <<>>
    /\ push_calls' = <<>>
    /\ pc' = "config"
    /\ UNCHANGED <<raised, running_config, router_parse, device_parse>>
    /\ UNCHANGED <<allocVars, normVars, fleetVars>>

\* Line 52: config_lines = self.device.config(device_config)
Config ==
    /\ pc = "config"
    /\ raised' = RouterConfigRaised(device_config)
    /\ IF raised' = "none"
       THEN /\ config_lines' = RouterConfig(device_config)
            /\ events' = Append(events, "compile")
            /\ pc' = StepAfter["config"]
       ELSE /\ pc' = AfterRaise(raised')
            /\ UNCHANGED <<config_lines, events>>
    /\ UNCHANGED <<device, device_config, running_config, router_parse, device_parse,
                   verify, push_calls, cycles>>
    /\ UNCHANGED <<allocVars, normVars, fleetVars>>

\* Lines 53-56: push_config_with_netmiko sends every line and returns; the
\* device then shows the lines, or shows what it showed before.
Push ==
    /\ pc = "push"
    /\ push_calls' = Append(push_calls, config_lines)
    /\ running_config' \in {RunningConfigOf(config_lines), running_config}
    /\ events' = Append(events, "push")
    /\ pc' = StepAfter["push"]
    /\ UNCHANGED <<device, device_config, config_lines, raised, router_parse, device_parse,
                   verify, cycles>>
    /\ UNCHANGED <<allocVars, normVars, fleetVars>>

\* ConnectHandler or a send fails: netmiko's exception is no RuntimeError.
PushFails ==
    /\ pc = "push"
    /\ push_calls' = Append(push_calls, config_lines)
    /\ raised' = "NetmikoException"
    /\ events' = Append(events, "push_failed")
    /\ pc' = AfterRaise(raised')
    /\ UNCHANGED <<device, device_config, config_lines, running_config, router_parse,
                   device_parse, verify, cycles>>
    /\ UNCHANGED <<allocVars, normVars, fleetVars>>

\* Lines 313-322 of router.py: verify_config_applied starts by fetching the
\* running-config.
FetchRouter ==
    /\ pc = "fetch_router"
    /\ router_parse' = running_config
    /\ events' = events \o <<"verify", "fetch">>
    /\ pc' = StepAfter["fetch_router"]
    /\ UNCHANGED <<device, device_config, config_lines, raised, running_config,
                   device_parse, verify, push_calls, cycles>>
    /\ UNCHANGED <<allocVars, normVars, fleetVars>>

\* Lines 122-133 of device.py: Device.verify_config_applied fetches again.
FetchDevice ==
    /\ pc = "fetch_device"
    /\ device_parse' = running_config
    /\ events' = Append(events, "fetch")
    /\ pc' = StepAfter["fetch_device"]
    /\ UNCHANGED <<device, device_config, config_lines, raised, running_config,
                   router_parse, verify, push_calls, cycles>>
    /\ UNCHANGED <<allocVars, normVars, fleetVars>>

\* task_result.failed: RuntimeError, caught at line 78; the handler returns
\* without updating the model or saving.
FetchFails ==
    /\ pc \in {"fetch_router", "fetch_device"}
    /\ events' = events \o (IF pc = "fetch_router" THEN <<"verify">> ELSE <<>>)
    /\ pc' = AfterRaise("RuntimeError")
    /\ UNCHANGED <<device, device_config, config_lines, raised, running_config,
                   router_parse, device_parse, verify, push_calls, cycles>>
    /\ UNCHANGED <<allocVars, normVars, fleetVars>>

\* The checks of verify_config_applied on the fetched configs.
Check ==
    /\ pc = "check"
    /\ raised' = RouterVerifyRaised(device_config, router_parse)
    /\ IF raised' = "none"
       THEN /\ verify' = RouterVerify(device_config, device_parse, router_parse)
            /\ events' = Append(events, "read")
            /\ pc' = StepAfter["check"]
       ELSE /\ pc' = AfterRaise(raised')
            /\ UNCHANGED <<verify, events>>
    /\ UNCHANGED <<device, device_config, config_lines, running_config, router_parse,
                   device_parse, push_calls, cycles>>
    /\ UNCHANGED <<allocVars, normVars, fleetVars>>

\* Lines 59-69: the report, and the update of the model unless the result
\* map is empty.
Update ==
    /\ pc = "update"
    /\ IF DOMAIN verify = {}
       THEN /\ pc' = StepAfter["update"]
            /\ UNCHANGED <<device, raised>>
       ELSE LET r == RouterUpdate(device, device_config)
            IN  /\ device' = r.d
                /\ raised' = r.raised
                /\ pc' = IF r.raised = "none" THEN StepAfter["update"]
                         ELSE AfterRaise(r.raised)
    /\ UNCHANGED <<device_config, config_lines, running_config, router_parse, device_parse,
                   verify, events, push_calls, cycles>>
    /\ UNCHANGED <<allocVars, normVars, fleetVars>>

\* Lines 71-76: save_config() when the intent asks for it.
Save ==
    /\ pc = "save"
    /\ events' = IF IsTrue(device_config, "save_config") THEN Append(events, "save")
                 ELSE events
    /\ pc' = StepAfter["save"]
    /\ UNCHANGED <<device, device_config, config_lines, raised, running_config,
                   router_parse, device_parse, verify, push_calls, cycles>>
    /\ UNCHANGED <<allocVars, normVars, fleetVars>>

CycleNext ==
    \/ ExecuteDeviceConfig \/ Config \/ Push \/ PushFails \/ FetchRouter \/ FetchDevice
    \/ FetchFails \/ Check \/ Update \/ Save

SpecCycle == CycleInit /\ [][CycleNext]_vars

(***************************************************************************)
(* Calls of normalize_iface: on a text, and again on what it returned.     *)
(***************************************************************************)
\* str.upper() on one character
UpperChar(c) ==
    IF \E k \in 1..26 : LowerLetters[k] = c
    THEN UpperLetters[CHOOSE k \in 1..26 : LowerLetters[k] = c]
    ELSE c

\* The letter cases an alias is written in: "g", "G", "Gi", and the family
\* name itself for the aliases that are a family name in lower case.
Casings(a) ==
    { a.alias,
      [k \in 1..Len(a.alias) |-> UpperChar(a.alias[k])],
      [k \in 1..Len(a.alias) |-> IF k = 1 THEN UpperChar(a.alias[k]) ELSE a.alias[k]],
      IF Len(a.alias) = Len(a.family) THEN a.family ELSE a.alias }

PhysicalIds == {<<"0">>, <<"0", "/", "0">>, <<"0", "/", "1">>, <<"0", "/", "0", "/", "1">>}

SubifaceDigits == {<<>>, <<"1", "0", "0">>}

\* The spellings of one interface: no space, a space after the alias, or
\* spaces around the text and after the alias.
Spellings(prefix, id, sub) ==
    LET tail == id \o (IF sub # <<>> THEN <<".">> \o sub ELSE <<>>)
    IN  { prefix \o tail, prefix \o <<" ">> \o tail,
          <<" ">> \o prefix \o <<" ", " ">> \o tail \o <<" ">> }

\* Texts that spell no Ethernet interface.
OtherNames == {<<"l", "o", "0">>, <<"V", "l", "a", "n", "1", "0">>, <<"g">>, <<"g", "0", "/">>, <<"g", "0", "/", "1", ".">>, <<"g", "x", "0">>, <<"S", "e", "r", "i", "a", "l", "0", "/", "0", "/", "0">>, <<"g", "0", ".", "1", ".", "2">>}

NormInit ==
    /\ AllocIdle
    /\ DeviceIdle
    /\ FleetIdle
    /\ norm_pc = "start"
    /\ normalized = <<>>
    /\ \/ \E a \in ALIAS_MAP, id \in PhysicalIds, sub \in SubifaceDigits :
             /\ spelled = <<[family |-> a.family, id |-> id, sub |-> sub]>>
             /\ \E c \in Casings(a) : norm_name \in Spellings(c, id, sub)
       \/ spelled = <<>> /\ norm_name \in OtherNames

\* normalize_iface(name)
Normalize ==
    /\ norm_pc = "start"
    /\ normalized' = normalize_iface(norm_name)
    /\ norm_pc' = "once"
    /\ UNCHANGED <<norm_name, spelled, allocVars, deviceVars, fleetVars>>

\* normalize_iface on the name the first call returned
NormalizeAgain ==
    /\ norm_pc = "once"
    /\ norm_name' = normalized
    /\ normalized' = normalize_iface(normalized)
    /\ norm_pc' = "twice"
    /\ UNCHANGED <<spelled, allocVars, deviceVars, fleetVars>>

NormNext == Normalize \/ NormalizeAgain

SpecNormalize == NormInit /\ [][NormNext]_vars

(***************************************************************************)
(* MainController: start() loads the devices of a configuration file, and  *)
(* run() lists the fleet before every menu and adds or removes devices.    *)
(***************************************************************************)
MaxFleetOps == 3

FleetNames == {"R1", "R2", "R3"}

\* One device of the configuration file or of the add-device menu: its
\* connection data, and whether the connector reaches it.
FileEntry(n) ==
    {[device_name |-> n, device_type |-> t, reachable |-> r] :
        t \in {"R", "SW"}, r \in BOOLEAN}

\* load_config answered with no, or a file of one or two devices.
ConfigFiles ==
    {<<>>} \cup {<<e>> : e \in FileEntry("R1")}
           \cup {<<e, f>> : e \in FileEntry("R1"), f \in FileEntry("R2")}

\* DeviceController(), then create_device(device_info): the connector's
\* RuntimeError gives False; otherwise True, the device being set only for
\* device_type "R".
create_device(device_info) ==
    [ok |-> device_info.reachable,
     controller |-> [device |-> IF device_info.reachable /\ device_info.device_type = "R"
                                THEN device_info.device_name ELSE None]]

\* __get_devices_list__ calls get_device_info() on every controller, which
\* reads self.device: AttributeError when some device is None.
ListRaises(controllers) == \E i \in 1..Len(controllers) : controllers[i].device = None

ListedNames(controllers) == {controllers[i].device : i \in 1..Len(controllers)}

FleetInit ==
    /\ AllocIdle
    /\ DeviceIdle
    /\ NormIdle
    /\ fleet_pc = "start"
    /\ config_file \in ConfigFiles
    /\ device_controllers = <<>>
    /\ fleet_ops = 0

\* start(): every device of the file whose create_device returned True.
Start ==
    /\ fleet_pc = "start"
    /\ LET made == [k \in 1..Len(config_file) |-> create_device(config_file[k])]
           kept == SelectSeq(made, LAMBDA c : c.ok)
       IN  device_controllers' = [k \in 1..Len(kept) |-> kept[k].controller]
    /\ fleet_pc' = "menu"
    /\ UNCHANGED <<config_file, fleet_ops, allocVars, deviceVars, normVars>>

\* run(), option 1: the menu offers routers only and refuses a name that is
\* already listed; the controller is appended whatever create_device returned.
AddDevice ==
    /\ fleet_pc = "menu"
    /\ fleet_ops < MaxFleetOps
    /\ ~ListRaises(device_controllers)
    /\ \E n \in FleetNames \ ListedNames(device_controllers), r \in BOOLEAN :
          device_controllers' =
              Append(device_controllers,
                     create_device([device_name |-> n, device_type |-> "R",
                                    reachable |-> r]).controller)
    /\ fleet_ops' = fleet_ops + 1
    /\ UNCHANGED <<fleet_pc, config_file, allocVars, deviceVars, normVars>>

\* run(), option 2 with action_by "id".
RemoveDevice ==
    /\ fleet_pc = "menu"
    /\ fleet_ops < MaxFleetOps
    /\ ~ListRaises(device_controllers)
    /\ \E k \in 1..Len(device_controllers) :
          device_controllers' = RemoveAt(device_controllers, k)
    /\ fleet_ops' = fleet_ops + 1
    /\ UNCHANGED <<fleet_pc, config_file, allocVars, deviceVars, normVars>>

\* run(): the listing handed to main_menu raises AttributeError.
ListDevicesFails ==
    /\ fleet_pc = "menu"
    /\ ListRaises(device_controllers)
    /\ fleet_pc' = "AttributeError"
    /\ UNCHANGED <<config_file, device_controllers, fleet_ops, allocVars, deviceVars,
                   normVars>>

FleetNext == Start \/ AddDevice \/ RemoveDevice \/ ListDevicesFails

SpecFleet == FleetInit /\ [][FleetNext]_vars

(***************************************************************************)
(* Properties of the subnet allocator (checked under SpecAlloc).           *)
(***************************************************************************)
LastAddress(net) == net.addr + NumAddresses(net) - 1

Overlap(a, b) == a.addr <= LastAddress(b) /\ b.addr <= LastAddress(a)

Inside(a, base) == base.addr <= a.addr /\ LastAddress(a) <= LastAddress(base)

SmallestPow2AtLeast(n) ==
    CHOOSE p \in {Pow2(k) : k \in 0..30} :
        p >= n /\ \A q \in {Pow2(k) : k \in 0..30} : q >= n => p <= q

\* C3: whenever the allocator returns, the returned subnets are pairwise
\* non-overlapping and each lies inside the base network.
C3_DisjointInsideBase ==
    alloc_pc = "returned" =>
        /\ \A i, j \in 1..Len(result_subnetting) :
              i # j => ~Overlap(result_subnetting[i], result_subnetting[j])
        /\ \A i \in 1..Len(result_subnetting) : Inside(result_subnetting[i], base_network)

C3_Witness ==
    /\ alloc_pc = "returned"
    /\ Len(result_subnetting) >= 3
    /\ \E i, j \in 1..Len(result_subnetting) :
          result_subnetting[i].prefix # result_subnetting[j].prefix

NoBlockHolds ==
    \A i \in 1..Len(current_subnet_pool) :
        NumAddresses(current_subnet_pool[i]) < networks[next_demand].devices + 2

C1_EmptyIntentCompilesToNothing ==
    device_config = EmptyIntent => pc # "config_raised" /\ config_lines = <<>>

C1_Witness ==
    /\ device_config = EmptyIntent
    /\ pc = "fetch"
    /\ Len(device.security.vty_protocols) = 2

\* C2: round trip.  When verify ran against a running-config holding exactly
\* the lines the compiler emitted for the intent, each sub-command under its
\* parent block, it returned and every key of the result map is true.
C2_RoundTripAllTrue ==
    (pc \in {"verified", "verify_raised"} /\ router_parse = RunningConfigOf(config_lines))
        => (pc = "verified" /\ \A k \in DOMAIN verify : verify[k])

\* C6: verify returns a result map and never raises, whatever running-config
\* was fetched for an intent the compiler accepted.
C6_VerifyNeverRaises == pc # "verify_raised"

\* A running-config in which every anchor the intent names is present.
AnchorsPresent(I) == RunningConfigOf(RouterConfig(I))

\* The keys of the sub-checks the intent requests under an anchor that is
\* absent from cfg, as the verifier names them when the anchor is present.
AbsentAnchorKeys(I, cfg) ==
    (IF Has(I, "iface") /\ IfaceObjs(cfg, VerifyIfaceName(I)) = <<>>
     THEN DOMAIN IfaceVerify(I, AnchorsPresent(I)) ELSE {})
    \cup (IF Has(I, "iface") /\ Has(I, "helper_address") /\ IfaceObjs(cfg, I["iface"]) = <<>>
          THEN DOMAIN HelperVerify(I, AnchorsPresent(I)) ELSE {})
    \cup (IF HasAll(I, PoolKeys) /\ PoolObjs(cfg, I["pool_name"]) = <<>>
          THEN DOMAIN PoolVerify(I, AnchorsPresent(I)) ELSE {})
    \cup (IF Has(I, "process_id") /\ (OspfProcessKeys \cap DOMAIN I) # {}
             /\ OspfObjs(cfg, I["process_id"]) = <<>>
          THEN DOMAIN OspfProcessVerify(I, AnchorsPresent(I)) ELSE {})
    \cup (IF Has(I, "iface_list")
          THEN UNION {DOMAIN OspfIfaceVerify(I, AnchorsPresent(I), IfaceListNames(I)[k]) :
                        k \in {j \in 1..Len(I["iface_list"]) :
                                 IfaceObjs(cfg, IfaceListNames(I)[j]) = <<>>}}
          ELSE {})

\* C7: when verify returned, every sub-check requested under an anchor that
\* is absent from the parsed config has an entry, under the key it has when
\* the anchor is present, and the entry is false.
C7_AbsentAnchorAllFalse ==
    pc = "verified" =>
        \A k \in AbsentAnchorKeys(device_config, router_parse) :
            k \in DOMAIN verify /\ ~verify[k]

(***************************************************************************)
(* Properties of the device configuration cycle (checked under SpecCycle). *)
(***************************************************************************)
ListsSsh(words) == \E j \in 1..Len(words) : words[j] = "ssh"

\* C8: SSH is never removed: every "transport input" line the compiler
\* emitted lists ssh, and the model's security.vty_protocols contains ssh
\* after any sequence of applied intents.
C8_SshNeverRemoved ==
    /\ \A k \in 1..Len(config_lines) :
          StartsWith(config_lines[k], <<"transport", "input">>) => ListsSsh(config_lines[k])
    /\ ListsSsh(device.security.vty_protocols)

\* C9: push_config_with_netmiko is invoked only with a non-empty command
\* list.
C9_PushOnlyNonEmpty == \A k \in 1..Len(push_calls) : push_calls[k] # <<>>

\* C10: within a cycle, compile completes before push starts, push completes
\* before verify starts, every fetch of the running-config comes after the
\* push and no push follows it, so that what verify reads is the
\* running-config the device shows after the push.
C10_CompilePushVerifyOrdered ==
    /\ \A i \in 1..Len(events) :
          /\ events[i] = "push" => \E j \in 1..i - 1 : events[j] = "compile"
          /\ events[i] \in {"verify", "fetch", "read"} =>
                /\ \E j \in 1..i - 1 : events[j] = "push"
                /\ \A j \in i + 1..Len(events) : events[j] # "push"
    /\ (Len(events) > 0 /\ events[Len(events)] = "read") =>
          router_parse = running_config /\ device_parse = running_config

C10_Witness ==
    /\ pc = "update"
    /\ events = <<"compile", "push", "verify", "fetch", "fetch", "read">>
    /\ config_lines # <<>>
    /\ router_parse = RunningConfigOf(config_lines)
    /\ cycles = MaxCycles

\* C11: when the push fails, the exception leaves the handler instead of
\* being caught and reported, and nothing of verify_config_applied (its
\* start, a fetch, a read) happens for that intent.
C11_PushFailurePropagates ==
    \A i \in 1..Len(events) :
        events[i] = "push_failed" =>
            /\ pc = "crashed"
            /\ raised = "NetmikoException"
            /\ \A j \in 1..Len(events) : events[j] \notin {"verify", "fetch", "read"}
            /\ verify = EmptyResults

C11_Witness ==
    /\ pc = "crashed"
    /\ raised = "NetmikoException"
    /\ events = <<"compile", "push_failed">>
    /\ config_lines # <<>>
    /\ cycles = MaxCycles

\* The lines of a command list that begin "ip route".
RouteLines(lines) == SelectSeq(lines, LAMBDA l : StartsWith(l, <<"ip", "route">>))

\* C12: for an intent with dest_ip and next_hop, compile raises a validation
\* error exactly when dest_ip is neither "A.B.C.D/n" nor "A.B.C.D MASK", and
\* a dest_ip of either form compiles to an ip route line.
C12_DestinationForms ==
    (pc # "config" /\ HasAll(device_config, {"dest_ip", "next_hop"})) =>
        LET accepted == device_config["dest_ip"].form \in {"cidr", "mask"}
        IN  /\ (pc = "config_raised" /\ raised = "ValueError") <=> ~accepted
            /\ accepted => RouteLines(config_lines) # <<>>

\* The low 24 bits of an address as a number, and back.
LowValue(ip) == (ip[2] * 256 + ip[3]) * 256 + ip[4]

Octets(v) == <<v \div 16777216, (v \div 65536) % 256, (v \div 256) % 256, v % 256>>

\* The first address of the block of 2^(32-len) addresses that holds ip.
BlockStart(ip, len) ==
    IF len >= 8
    THEN LET low == LowValue(ip) - (LowValue(ip) % Pow2(32 - len))
         IN  <<ip[1], Octets(low)[2], Octets(low)[3], Octets(low)[4]>>
    ELSE <<ip[1] - (ip[1] % Pow2(8 - len)), 0, 0, 0>>

\* The dotted netmask of a prefix length: the complement of the block's
\* highest offset.
MaskOfLength(len) == [k \in 1..4 |-> 255 - Octets(Pow2(32 - len) - 1)[k]]

\* C13: an intent whose only keys are pool_name, pool_network and
\* pool_gateway_ip compiles to exactly three lines, in this order: the pool
\* line, the network line with the network address (host bits cleared) and
\* the dotted netmask, the default-router line.
C13_PoolCompilesToThreeLines ==
    (DOMAIN device_config = PoolKeys /\ pc # "config") =>
        LET net == device_config["pool_network"]
        IN  /\ pc # "config_raised"
            /\ config_lines =
                 << <<"ip", "dhcp", "pool", device_config["pool_name"]>>,
                    <<"network", Dotted(BlockStart(net.addr, net.len)),
                      Dotted(MaskOfLength(net.len))>>,
                    <<"default-router", Dotted(device_config["pool_gateway_ip"])>> >>
            /\ (net.addr = <<10, 1, 1, 0>> /\ net.len = 24) =>
                  config_lines[2] = <<"network", "10.1.1.0", "255.255.255.0">>

C13_Witness ==
    /\ DOMAIN device_config = PoolKeys
    /\ device_config["pool_network"].addr = <<10, 1, 1, 5>>
    /\ pc = "fetch"
    /\ Len(config_lines) = 3

\* C14: an intent with dest_ip and next_hop (the destination in either form
\* the compiler is documented to accept) compiles to exactly one line
\* "ip route <network address> <dotted netmask> <next hop>", followed by the
\* administrative distance only when the intent carries one.
C14_OneStaticRouteLine ==
    (/\ pc # "config"
     /\ HasAll(device_config, {"dest_ip", "next_hop"})
     /\ device_config["dest_ip"].form \in {"cidr", "mask"}) =>
        LET dest == device_config["dest_ip"]
            line == <<"ip", "route", Dotted(BlockStart(dest.addr, dest.len)),
                      Dotted(MaskOfLength(dest.len)), Dotted(device_config["next_hop"])>>
        IN  /\ pc # "config_raised"
            /\ RouteLines(config_lines) =
                 IF Has(device_config, "admin_distance")
                 THEN <<line \o <<ToString(device_config["admin_distance"])>> >>
                 ELSE <<line>>

\* The feature groups a command line can belong to, numbered in the order
\* of the groups: 1 identity, 2 users, 3 banner, 4 security, 5 interface
\* block, 6 HSRP, 7 DHCP, 8 static route, 9 OSPF process statements,
\* 10 per-interface OSPF lines, 11 passive-interface block.
GroupsOf(l) ==
    IF StartsWith(l, <<"hostname">>) \/ StartsWith(l, <<"ip", "domain-lookup">>)
          \/ StartsWith(l, <<"no", "ip", "domain-lookup">>) THEN {1}
    ELSE IF StartsWith(l, <<"username">>) \/ StartsWith(l, <<"no", "username">>) THEN {2}
    ELSE IF StartsWith(l, <<"banner">>) THEN {3}
    ELSE IF StartsWith(l, <<"service", "password-encryption">>) \/ StartsWith(l, <<"line">>)
          \/ StartsWith(l, <<"password">>) \/ StartsWith(l, <<"login">>)
          \/ StartsWith(l, <<"transport">>) \/ StartsWith(l, <<"enable", "secret">>) THEN {4}
    ELSE IF StartsWith(l, <<"interface">>) THEN {5, 6, 7, 10}
    ELSE IF StartsWith(l, <<"encapsulation">>) \/ StartsWith(l, <<"description">>)
          \/ StartsWith(l, <<"ip", "address">>) \/ StartsWith(l, <<"shutdown">>)
          \/ StartsWith(l, <<"no", "shutdown">>) THEN {5}
    ELSE IF StartsWith(l, <<"standby">>) \/ StartsWith(l, <<"no", "standby">>) THEN {6}
    ELSE IF StartsWith(l, <<"ip", "helper-address">>) \/ StartsWith(l, <<"ip", "dhcp">>)
          \/ (StartsWith(l, <<"network">>) /\ Len(l) = 3)
          \/ StartsWith(l, <<"default-router">>) \/ StartsWith(l, <<"dns-server">>) THEN {7}
    ELSE IF StartsWith(l, <<"ip", "route">>) THEN {8}
    ELSE IF StartsWith(l, <<"router", "ospf">>) THEN {9, 11}
    ELSE IF StartsWith(l, <<"router-id">>) \/ StartsWith(l, <<"auto-cost">>)
          \/ (StartsWith(l, <<"network">>) /\ Len(l) = 5)
          \/ StartsWith(l, <<"redistribute">>) \/ StartsWith(l, <<"no", "redistribute">>) THEN {9}
    ELSE IF StartsWith(l, <<"ip", "ospf">>) THEN {10}
    ELSE IF StartsWith(l, <<"passive-interface">>) THEN {11}
    ELSE {}

\* A line that opens a block belongs to the group of the lines under it.
IsOpener(l) == StartsWith(l, <<"interface">>) \/ StartsWith(l, <<"router", "ospf">>)

\* The lines can be given groups, each line one of its own and an opener the
\* group of the line after it, so that the groups never decrease from
\* "least" on.
RECURSIVE InGroupOrder(_, _)
InGroupOrder(lines, least) ==
    IF lines = <<>> THEN TRUE
    ELSE LET l == Head(lines)
             fits == {g \in GroupsOf(l) : g >= least}
             own == IF IsOpener(l) /\ Len(lines) > 1 /\ ~IsOpener(lines[2])
                    THEN {g \in fits : g \in GroupsOf(lines[2])}
                    ELSE fits
         IN  \E g \in own : InGroupOrder(Tail(lines), g)

\* C15: the commands compile returns are in feature-group order: no command
\* of a later group precedes a command of an earlier group.
C15_FeatureGroupOrder ==
    pc \notin {"config", "config_raised"} => InGroupOrder(config_lines, 1)

C15_Witness ==
    /\ pc = "fetch"
    /\ device_config = MergeParts(1..Len(MixedParts), 1)
    /\ \A g \in 1..11 : \E k \in 1..Len(config_lines) : g \in GroupsOf(config_lines[k])
    /\ Len(config_lines) > 20

(***************************************************************************)
(* Properties of the router model under applied intents (checked under     *)
(* SpecCycle).  An intent is applied by the step that leaves "update" for  *)
(* "save" with a result map that is not empty.                             *)
(***************************************************************************)
\* Equality of two values that need not be of the same kind (None, a
\* number, an address).
Same(a, b) == ToString(a) = ToString(b)

Applied == pc = "update" /\ pc' = "save" /\ DOMAIN verify # {}

OspfIds(d) == [k \in 1..Len(d.ospf_processes) |-> d.ospf_processes[k].id]

DistinctOspfIds(d) ==
    \A i, j \in 1..Len(d.ospf_processes) : i # j => OspfIds(d)[i] # OspfIds(d)[j]

\* What an applied intent with a process_id does to the OSPF processes.
UpsertEffect ==
    LET I == device_config
        os == device.ospf_processes
        after == device'.ospf_processes
    IN  IF \E k \in 1..Len(os) : os[k].id = I["process_id"]
        THEN /\ OspfIds(device') = OspfIds(device)
             /\ \A k \in 1..Len(os) :
                   IF os[k].id # I["process_id"] THEN Same(after[k], os[k])
                   ELSE /\ Same(after[k].bw_cost,
                                IF Has(I, "reference-bandwidth") THEN I["reference-bandwidth"]
                                ELSE os[k].bw_cost)
                        /\ Same(after[k].router_id,
                                IF Has(I, "router_id") THEN I["router_id"] ELSE os[k].router_id)
                        /\ Same(after[k].redistribute,
                                IF Has(I, "is_redistribute") THEN I["is_redistribute"]
                                ELSE os[k].redistribute)
                        /\ Len(after[k].networks) =
                              Len(os[k].networks) + (IF Has(I, "network_ip") THEN 1 ELSE 0)
                        /\ \A n \in 1..Len(os[k].networks) :
                              after[k].networks[n] = os[k].networks[n]
        ELSE /\ Len(after) = Len(os) + 1
             /\ \A k \in 1..Len(os) : Same(after[k], os[k])
             /\ after[Len(after)].id = I["process_id"]

\* C16: the OSPF processes of the model never share a process_id; an applied
\* intent that names a process_id the model holds changes only the fields it
\* carries, in that one process; one that names a new process_id appends
\* exactly one process; no other step changes the ids the model holds.
C16_OspfUpsert ==
    /\ [](DistinctOspfIds(device))
    /\ [][IF Applied /\ Has(device_config, "process_id") THEN UpsertEffect
          ELSE OspfIds(device') = OspfIds(device)]_vars

C16_Witness ==
    /\ pc = "save"
    /\ cycles = 2
    /\ OspfIds(device) = <<1, 2>>
    /\ Same(device.ospf_processes[1].router_id, <<1, 1, 1, 1>>)
    /\ Same(device.ospf_processes[2].bw_cost, 1000)
    /\ device_config = ("process_id" :> 1) @@ ("router_id" :> <<1, 1, 1, 1>>)

\* C17: the process an applied intent creates (its process_id is not yet in
\* the model) has reference bandwidth 100 when the intent carries no
\* reference-bandwidth, and does not redistribute static routes when the
\* intent carries no is_redistribute.
C17_NewProcessDefaults ==
    [][(/\ Applied
        /\ Has(device_config, "process_id")
        /\ \A k \in 1..Len(device.ospf_processes) :
              device.ospf_processes[k].id # device_config["process_id"]) =>
          LET created == device'.ospf_processes[Len(device'.ospf_processes)]
          IN  /\ created.id = device_config["process_id"]
              /\ ~Has(device_config, "reference-bandwidth") => Same(created.bw_cost, 100)
              /\ ~Has(device_config, "is_redistribute") => Same(created.redistribute, FALSE)]_vars

\* C18: every applied intent with dest_ip and next_hop appends exactly one
\* static route to the model, with administrative distance 1 when the
\* intent gives none, and leaves the routes already held as they were.
C18_StaticRoutesAccumulate ==
    [][(Applied /\ HasAll(device_config, {"dest_ip", "next_hop"})) =>
          Same(device'.static_routes,
               Append(device.static_routes,
                      [destination |-> device_config["dest_ip"],
                       next_hop |-> device_config["next_hop"],
                       admin_dist |-> IF Has(device_config, "admin_distance")
                                      THEN device_config["admin_distance"] ELSE 1]))]_vars

\* a <= b for two addresses
AddrLeq(a, b) == a[1] < b[1] \/ (a[1] = b[1] /\ LowValue(a) <= LowValue(b))

\* C19: every DHCP excluded range the model holds has start <= end.
C19_ExcludedRangesOrdered ==
    \A k \in 1..Len(device.excluded_addresses) :
        AddrLeq(device.excluded_addresses[k].start, device.excluded_addresses[k].end)

\* str.lower() on the usernames in use.
Lower(name) == IF name = "Bob" THEN "bob" ELSE IF name = "Eve" THEN "eve" ELSE name

\* C20: no two users of the model have usernames that are equal ignoring
\* case, and the update step of an intent that adds a user without a
\* privilege adds that user with privilege 1.
C20_UniqueUsersDefaultPrivilege ==
    /\ [](\A i, j \in 1..Len(device.users) :
             i # j => Lower(device.users[i].username) # Lower(device.users[j].username))
    /\ [][(/\ pc = "update"
           /\ DOMAIN verify # {}
           /\ Has(device_config, "username")
           /\ ~Has(device_config, "privilege")) =>
             device'.users = Append(device.users,
                                    [username |-> device_config["username"],
                                     privilege |-> 1])]_vars

\* C21: no two interfaces of the router model have the same normalized
\* name, whatever intents were applied (a subinterface intent for the same
\* iface and subiface_num may be applied more than once).
C21_InterfaceNamesUnique ==
    \A i, j \in 1..Len(device.interfaces) :
        i # j => NormalizeIface(device.interfaces[i].name)
                    # NormalizeIface(device.interfaces[j].name)

(***************************************************************************)
(* Properties of the verification engine on multi-valued and OSPF intents  *)
(* (checked under SpecEngine).                                             *)
(***************************************************************************)
\* cfg holds the line words under a block "interface <name>".
ConfiguredUnder(cfg, name, words) ==
    \E k \in 1..Len(cfg) :
        /\ cfg[k].line = <<"interface", name>>
        /\ \E c \in 1..Len(cfg[k].children) : cfg[k].children[c] = words

\* The per-interface OSPF checks an intent requests for the interface name:
\* the key of each in the result map and the line it looks for.
TuningChecks(I, name) ==
    (IF ParamHas(I, name, "hello_interval")
     THEN {[key |-> "ospf " \o name \o " hello",
            line |-> <<"ip", "ospf", "hello-interval", ToString(I[name]["hello_interval"])>>]}
     ELSE {})
    \cup (IF ParamHas(I, name, "dead_interval")
          THEN {[key |-> "ospf " \o name \o " dead",
                 line |-> <<"ip", "ospf", "dead-interval", ToString(I[name]["dead_interval"])>>]}
          ELSE {})
    \cup (IF ParamHas(I, name, "priority")
          THEN {[key |-> "ospf " \o name \o "_priority",
                 line |-> <<"ip", "ospf", "priority", ToString(I[name]["priority"])>>]}
          ELSE {})
    \cup (IF ParamHas(I, name, "cost")
          THEN {[key |-> "ospf " \o name \o " cost",
                 line |-> <<"ip", "ospf", "cost", ToString(I[name]["cost"])>>]}
          ELSE {})

\* C22: for an intent that lists interfaces, the result of verify has one
\* entry per listed interface and requested check, true when the fetched
\* config holds the line under that interface and false when it does not.
C22_OneEntryPerInterface ==
    (pc = "verified" /\ Has(device_config, "iface_list")) =>
        \A k \in 1..Len(device_config["iface_list"]) :
            \A c \in TuningChecks(device_config, IfaceListNames(device_config)[k]) :
                /\ c.key \in DOMAIN verify
                /\ verify[c.key] =
                      ConfiguredUnder(router_parse, IfaceListNames(device_config)[k], c.line)

(***************************************************************************)
(* Properties of normalize_iface (checked under SpecNormalize).            *)
(***************************************************************************)
\* <FullFamilyName><id>[.<sub>]
Canonical(i) == i.family \o i.id \o (IF i.sub # <<>> THEN <<".">> \o i.sub ELSE <<>>)

\* C23: every spelling of an Ethernet-family interface (any alias of the
\* family, any letter case, with or without spaces) normalizes to the full
\* family name followed by the id and the subinterface, and normalizing the
\* result again returns it unchanged.
C23_NormalizeIsCanonical ==
    /\ (norm_pc \in {"once", "twice"} /\ spelled # <<>>) => normalized = Canonical(spelled[1])
    /\ norm_pc = "twice" => normalized = norm_name
    /\ (norm_pc = "once" /\ norm_name \in {<<"g", "0", "/", "1">>, <<"G", "i", "0", "/", "1">>, <<"G", "i", "g", "a", "b", "i", "t", "E", "t", "h", "e", "r", "n", "e", "t", "0", "/", "1">>}) => normalized = <<"G", "i", "g", "a", "b", "i", "t", "E", "t", "h", "e", "r", "n", "e", "t", "0", "/", "1">>
    /\ (norm_pc = "once" /\ norm_name = <<"f", "0", "/", "0", ".", "1", "0", "0">>) => normalized = <<"F", "a", "s", "t", "E", "t", "h", "e", "r", "n", "e", "t", "0", "/", "0", ".", "1", "0", "0">>

C23_Witness ==
    /\ norm_pc = "once"
    /\ norm_name = <<" ", "E", "T", "H", " ", " ", "0", "/", "0", "/", "1", ".", "1", "0", "0", " ">>
    /\ normalized = <<"E", "t", "h", "e", "r", "n", "e", "t", "0", "/", "0", "/", "1", ".", "1", "0", "0">>

\* The fields of the security part of get_config.
SecurityFields(d) ==
    IF "security" \in DOMAIN DeviceGetConfig(d)
    THEN DOMAIN DeviceGetConfig(d)["security"] ELSE {}

\* C24: get_config holds a field exactly when the model's value of that
\* field is not the default: ip_domain_lookup when it is not False, banner
\* when it is not None, enable_by_password when an enable secret was set,
\* is_encrypted when it is not False, console_access when it is not None,
\* vty_protocols when they are not ["ssh"].
C24_GetConfigOmitsDefaults ==
    /\ ("ip_domain_lookup" \in DOMAIN DeviceGetConfig(device))
          <=> (device.ip_domain_lookup # FALSE)
    /\ ("banner" \in DOMAIN DeviceGetConfig(device)) <=> ~Same(device.banner, None)
    /\ ("enable_by_password" \in SecurityFields(device))
          <=> ~Same(device.security.enable_by_password, FALSE)
    /\ ("is_encrypted" \in SecurityFields(device)) <=> (device.security.is_encrypted # FALSE)
    /\ ("console_access" \in SecurityFields(device))
          <=> ~Same(device.security.console_access, None)
    /\ ("vty_protocols" \in SecurityFields(device))
          <=> (device.security.vty_protocols # <<"ssh">>)

(***************************************************************************)
(* Completeness of the allocator (checked under SpecAlloc).                *)
(***************************************************************************)
\* The loop of generate_subnetting as a function of its inputs: TRUE when
\* some demand of the sorted list finds no block in the pool.
RECURSIVE RaisesFrom(_, _, _)
RaisesFrom(sorted, k, pool) ==
    IF k > Len(sorted) THEN FALSE
    ELSE LET prefix == NeededPrefix(sorted[k].devices)
             i == FirstFit(pool, prefix)
         IN  IF i = 0 THEN TRUE
             ELSE RaisesFrom(sorted, k + 1, PoolAfter(pool, i, SubnetsOf(pool[i], prefix)))

AllocatorRaises(base, demands) ==
    RaisesFrom(InsertionSort(Enumerate(demands)), 1, <<base>>)

MinimalBlock(devices) == SmallestPow2AtLeast(devices + 2)

AlignedBlocks(base, size) ==
    {[addr |-> a, size |-> size] :
        a \in {x \in base.addr..(base.addr + NumAddresses(base) - size) :
                  (x - base.addr) % size = 0}}

BlocksOverlap(a, b) == a.addr < b.addr + b.size /\ b.addr < a.addr + a.size

\* Some choice of aligned blocks for demands k, k+1, ... avoids the blocks
\* already placed and each other.
RECURSIVE PlaceableFrom(_, _, _, _)
PlaceableFrom(base, demands, k, placed) ==
    IF k > Len(demands) THEN TRUE
    ELSE \E b \in AlignedBlocks(base, MinimalBlock(demands[k])) :
            /\ \A q \in placed : ~BlocksOverlap(b, q)
            /\ PlaceableFrom(base, demands, k + 1, placed \cup {b})

Packable(base, demands) == PlaceableFrom(base, demands, 1, {})

\* C25 (as amended): the allocator ends with the insufficient-address-space
\* error only when the demands' minimal power-of-two blocks cannot all be
\* placed disjointly and aligned inside the base network.
C25_RaisesOnlyWhenUnpackable ==
    alloc_pc = "raised" => ~Packable(base_network, devices_per_network)

\* The error is reached after two halves of the /24 had been handed out.
C25_Witness ==
    /\ alloc_pc = "raised"
    /\ base_network.prefix = 24
    /\ Len(subnets) = 2
    /\ Len(devices_per_network) = 3

\* C25 as stated: for some base network and demand list the allocator raises
\* although a disjoint aligned placement of the minimal blocks exists.
C25_SomePackableInputRaises ==
    \E base \in BaseNetworks :
        \E demands \in SeqsUpTo(DemandValues, MaxDemands) :
            AllocatorRaises(base, demands) /\ Packable(base, demands)

(***************************************************************************)
(* Compiler and verifier as mirrors of each other (checked under           *)
(* SpecEngine).                                                            *)
(***************************************************************************)
StaticOnly(I) ==
    /\ HasAll(I, {"dest_ip", "next_hop"})
    /\ DOMAIN I \subseteq {"dest_ip", "next_hop", "admin_distance"}

StaticKey(I) ==
    "static route " \o Dotted(BlockStart(I["dest_ip"].addr, I["dest_ip"].len)) \o " "
        \o Dotted(MaskOfLength(I["dest_ip"].len)) \o " " \o Dotted(I["next_hop"])
        \o (IF Has(I, "admin_distance") THEN " " \o ToString(I["admin_distance"]) ELSE "")

\* C26: for an intent with dest_ip, next_hop and any admin_distance (absent,
\* 1 or greater), verification over a running-config that holds exactly the
\* emitted static route line reports true under the static-route key.
C26_StaticRouteEchoVerified ==
    (/\ pc = "verified"
     /\ StaticOnly(device_config)
     /\ Len(config_lines) = 1
     /\ running_config = RunningConfigOf(config_lines)) =>
        /\ StaticKey(device_config) \in DOMAIN verify
        /\ verify[StaticKey(device_config)] = TRUE

OspfOnly(I) == I \in OspfProcessIntents \cup OspfIfaceIntents

\* C27: for an OSPF intent, verification over a running-config that holds
\* exactly the compiler's output ends without an error and reports true under
\* every OSPF key it produces, the key "ospf <id> present" among them.
C27_OspfEchoVerified ==
    (/\ pc \in {"verified", "verify_raised"}
     /\ OspfOnly(device_config)
     /\ config_lines # <<>>
     /\ running_config = RunningConfigOf(config_lines)) =>
        /\ pc = "verified"
        /\ ("ospf " \o ToString(device_config["process_id"]) \o " present") \in DOMAIN verify
        /\ \A k \in DOMAIN verify : verify[k] = TRUE

(***************************************************************************)
(* The model and the device (checked under SpecCycle).                     *)
(***************************************************************************)
\* C28: the device model changes only in a step at which verification has
\* returned true for some feature of the intent; a change with an empty
\* result map, or with a map that holds no true entry, records something
\* that was not observed on the device.
C28_ModelChangesOnlyWhenObserved ==
    [][ device' # device => \E k \in DOMAIN verify : verify[k] = TRUE ]_vars

UpdateActs(d, I) == RouterUpdate(d, I).raised # "none" \/ ~Same(RouterUpdate(d, I).d, d)

\* C29: compile and model update agree on what an intent triggers: when
\* Router.config returns without emitting any command for an intent,
\* Router.update called with the same intent neither changes the model nor
\* raises.
C29_SilentCompileSilentUpdate ==
    (pc = "fetch" /\ config_lines = <<>>) => ~UpdateActs(device, device_config)

(***************************************************************************)
(* The fleet of device controllers (checked under SpecFleet).              *)
(***************************************************************************)
\* C30: after start and any sequence of add-device and remove-device
\* operations, every controller held in device_controllers has its device
\* set, and listing the fleet never raises.
C30_EveryControllerHasDevice ==
    /\ \A i \in 1..Len(device_controllers) : device_controllers[i].device # None
    /\ fleet_pc # "AttributeError"

=============================================================================
